---- MODULE Spec2Model ----
(***************************************************************************)
(* k8s-ttl-controller: the reconciliation loop of main.go.                 *)
(*                                                                         *)
(* main() calls Reconcile() forever.  Reconcile() asks the discovery API   *)
(* for the resources, then races a timer goroutine against a goroutine     *)
(* that runs DoReconcile(), the sequential pipeline that lists every       *)
(* eligible resource page by page and deletes the items whose TTL passed.  *)
(*                                                                         *)
(* Time is counted in minutes; strings that the code splits or searches    *)
(* are sequences of one-character strings.                                 *)
(***************************************************************************)
EXTENDS Integers, Sequences, FiniteSets, TLC

(***************************************************************************)
(* Constants of main.go                                                    *)
(***************************************************************************)
AnnotationTTL == "k8s-ttl-controller.twin.sh/ttl"

AnnotationRefreshedAt == "k8s-ttl-controller.twin.sh/refreshed-at"

MaximumFailedExecutionBeforePanic == 10

\* The error values Reconcile can return (nil is success).
ErrNil == "nil"

ErrTimedOut == "execution timed out"

ErrDiscovery == "discovery failed"

\* Lines 100-101: make(chan bool, 1), the capacity of timeout and of result.
ChanCapacity == 1

(***************************************************************************)
(* Bounds of the model                                                     *)
(***************************************************************************)
\* Page size of a list request (ListLimit is 500 in main.go).
ListLimit == 2

\* The clock starts at StartTime and stops advancing at MaxTime.
MaxTime == 4

\* Number of Reconcile calls main() makes in a behaviour.
MaxPasses == 2

StartTime == 2

\* The most the clock advances, in quarters of a second, between the reading the
\* expiry decision uses (line 190) and the reading of time.Since (line 192).
MaxElapsed == 2

(***************************************************************************)
(* Strings                                                                 *)
(***************************************************************************)
\* strings.Split(s, "/"): the parts of s between the slashes.
RECURSIVE SplitFrom(_, _, _)
SplitFrom(s, i, cur) ==
    IF i > Len(s) THEN <<cur>>
    ELSE IF s[i] = "/" THEN <<cur>> \o SplitFrom(s, i + 1, <<>>)
    ELSE SplitFrom(s, i + 1, Append(cur, s[i]))

Split(s) == SplitFrom(s, 1, <<>>)

\* strings.Contains(s, sub): sub occurs in s as a contiguous substring.
StringsContains(s, sub) ==
    \E i \in 1..(Len(s) - Len(sub) + 1) : SubSeq(s, i, i + Len(sub) - 1) = sub

\* The characters of the verbs the API server advertises.
VerbChars(v) ==
    CASE v = "list" -> <<"l", "i", "s", "t">>
      [] v = "delete" -> <<"d", "e", "l", "e", "t", "e">>
      [] v = "deletecollection" ->
            <<"d", "e", "l", "e", "t", "e", "c", "o", "l", "l", "e", "c", "t", "i", "o", "n">>
      [] v = "get" -> <<"g", "e", "t">>
      [] v = "create" -> <<"c", "r", "e", "a", "t", "e">>
      [] v = "watch" -> <<"w", "a", "t", "c", "h">>

\* metav1.Verbs.String(): "[v1 v2 ...]".
RECURSIVE JoinVerbs(_, _)
JoinVerbs(vs, i) ==
    IF i > Len(vs) THEN <<>>
    ELSE (IF i > 1 THEN <<" ">> ELSE <<>>) \o VerbChars(vs[i]) \o JoinVerbs(vs, i + 1)

VerbsString(vs) == <<"[">> \o JoinVerbs(vs, 1) \o <<"]">>

\* contains(slice, item) of main.go.
contains(slice, item) == \E n \in 1..Len(slice) : slice[n] = item

(***************************************************************************)
(* Annotation values and their parsers                                     *)
(***************************************************************************)
\* A parse that failed.
ParseError == -1

\* str2duration.ParseDuration on the TTL values used in the cluster below:
\* the duration in minutes, or ParseError.
ParseDuration(s) ==
    CASE s = "0s" -> 0
      [] s = "1m" -> 1
      [] s = "2m" -> 2
      [] OTHER -> ParseError

\* time.Parse(time.RFC3339, s): minutes since 2024-12-08T20:00:00Z, or ParseError.
ParseRFC3339(s) ==
    CASE s = "2024-12-08T20:00:00Z" -> 0
      [] s = "2024-12-08T20:01:00Z" -> 1
      [] s = "2024-12-08T20:02:00Z" -> 2
      [] s = "2024-12-08T20:03:00Z" -> 3
      [] OTHER -> ParseError

(***************************************************************************)
(* The cluster: what discovery returns and the objects the server holds    *)
(***************************************************************************)
\* kubernetesClient.Discovery().ServerGroupsAndResources(): the APIResourceLists.
Resources == <<
    [GroupVersion |-> <<"v", "1">>,
     APIResources |-> <<
        [Name |-> "bindings", Verbs |-> <<"create">>],
        [Name |-> "pods", Verbs |-> <<"create", "delete", "get", "list", "watch">>] >>],
    [GroupVersion |-> <<"a", "/", "b", "/", "c">>,
     APIResources |-> <<
        [Name |-> "widgets", Verbs |-> <<"delete", "get", "list">>] >>],
    [GroupVersion |-> <<"e", "/", "v", "1">>,
     APIResources |-> << >>],
    [GroupVersion |-> <<"b", "a", "t", "c", "h", "/", "v", "1">>,
     APIResources |-> <<
        [Name |-> "jobs", Verbs |-> <<"delete", "deletecollection", "get", "list">>],
        [Name |-> "leases", Verbs |-> <<"deletecollection", "get", "list">>] >>] >>

\* The objects of the cluster at the start, in the order the server lists them.
\* Every object exists at StartTime (creationTimestamp <= StartTime).
Items == <<
    [resource |-> "pods", name |-> "a", creationTimestamp |-> 0,
     annotations |-> (AnnotationTTL :> "soon" @@ AnnotationRefreshedAt :> "2024-12-08T20:01:00Z")],
    [resource |-> "pods", name |-> "b", creationTimestamp |-> 2,
     annotations |-> (AnnotationTTL :> "1m" @@ AnnotationRefreshedAt :> "yesterday")],
    [resource |-> "pods", name |-> "c", creationTimestamp |-> 1,
     annotations |-> (AnnotationTTL :> "1m")],
    [resource |-> "jobs", name |-> "d", creationTimestamp |-> 0,
     annotations |-> (AnnotationTTL :> "1m" @@ AnnotationRefreshedAt :> "2024-12-08T20:02:00Z")],
    [resource |-> "jobs", name |-> "e", creationTimestamp |-> 0,
     annotations |-> (AnnotationRefreshedAt :> "2024-12-08T20:00:00Z")],
    [resource |-> "jobs", name |-> "f", creationTimestamp |-> 2,
     annotations |-> (AnnotationTTL :> "2m" @@ AnnotationRefreshedAt :> "2024-12-08T20:00:00Z")],
    [resource |-> "widgets", name |-> "g", creationTimestamp |-> 0,
     annotations |-> (AnnotationTTL :> "0s")],
    [resource |-> "leases", name |-> "h", creationTimestamp |-> 2,
     annotations |-> (AnnotationTTL :> "1m")] >>

ItemIds == 1..Len(Items)

\* The allow-lists init() can read from API_RESOURCES_TO_WATCH (empty: unset).
AllowLists == { <<>>, <<"jobs", "leases", "widgets">>, <<"pods">> }

\* Bound: how many passes can have goroutines alive at the same time.  With a
\* one-kind allow-list a new Reconcile call can start while the pipeline of an
\* earlier call still runs; with more kinds to walk, main's next call is taken
\* only once the goroutines of the earlier calls have ended.
SlotsFor(watch) == IF Len(watch) = 1 THEN 2 ELSE 1

(***************************************************************************)
(* The API server                                                          *)
(***************************************************************************)
\* The places of the discovery snapshot: <<group index, kind index>>.
Entries ==
    UNION { { <<g, k>> : k \in 1..Len(Resources[g].APIResources) } :
             g \in 1..Len(Resources) }

\* The discovery entry that advertises each resource name.
EntryTable ==
    [ r \in { Resources[p[1]].APIResources[p[2]].Name : p \in Entries } |->
        CHOOSE p \in Entries : Resources[p[1]].APIResources[p[2]].Name = r ]

\* The discovery entry that advertises a resource: <<group index, kind index>>.
EntryOf(resource) == EntryTable[resource]

\* The server supports a verb on a resource iff discovery advertises it.
ServerSupports(resource, verb) ==
    LET p == EntryOf(resource)
        vs == Resources[p[1]].APIResources[p[2]].Verbs
    IN \E n \in 1..Len(vs) : vs[n] = verb

\* The server knows a resource under the group and version of its discovery entry.
ServerKnows(gvr) ==
    /\ \E g \in 1..Len(Resources) : \E k \in 1..Len(Resources[g].APIResources) :
           Resources[g].APIResources[k].Name = gvr.Resource
    /\ LET gv == Resources[EntryOf(gvr.Resource)[1]].GroupVersion
       IN gv = (IF gvr.Group = <<>> THEN gvr.Version ELSE gvr.Group \o <<"/">> \o gvr.Version)

\* The stored objects of a resource after continuation token tok, in order.
\* A token is the id of the last object of the previous page; 0 is the empty token.
RECURSIVE Remaining(_, _, _)
Remaining(present, resource, tok) ==
    IF tok >= Len(Items) THEN <<>>
    ELSE (IF (tok + 1) \in present /\ Items[tok + 1].resource = resource
          THEN <<tok + 1>> ELSE <<>>) \o Remaining(present, resource, tok + 1)

\* A successful List(gvr, Continue: tok, Limit: ListLimit): the page and its token.
ServerList(present, gvr, tok) ==
    LET rest == Remaining(present, gvr.Resource, tok)
        page == SubSeq(rest, 1, IF Len(rest) < ListLimit THEN Len(rest) ELSE ListLimit)
    IN [Items |-> page,
        Continue |-> IF Len(rest) > ListLimit THEN page[Len(page)] ELSE 0]

\* A Delete(gvr, name) can succeed only for a stored object of a resource that
\* supports the verb delete.
ServerCanDelete(present, gvr, i) ==
    /\ i \in present
    /\ ServerKnows(gvr)
    /\ Items[i].resource = gvr.Resource
    /\ ServerSupports(gvr.Resource, "delete")

(***************************************************************************)
(* DoReconcile: the pure parts                                             *)
(***************************************************************************)
\* Variant of GroupVersionOk that accepts a string with any number of slashes.
GroupVersionOkAnySlashes(gv) == Len(Split(gv)) >= 1

\* Lines 144-153: the group/version string splits into one or two parts.
GroupVersionOk(gv) == Len(Split(gv)) = 2 \/ Len(Split(gv)) = 1

\* Variant of GVR that keeps the resource of the first kind of the group.
GVRFirstKindOfGroup(gi, ki) ==
    LET gv == Split(Resources[gi].GroupVersion)
    IN [Group |-> IF Len(gv) = 2 THEN gv[1] ELSE <<>>,
        Version |-> IF Len(gv) = 2 THEN gv[2] ELSE gv[1],
        Resource |-> Resources[gi].APIResources[1].Name]

\* Lines 145-150 and 165: the GroupVersionResource of kind ki of group gi.
GVR(gi, ki) ==
    LET gv == Split(Resources[gi].GroupVersion)
    IN [Group |-> IF Len(gv) = 2 THEN gv[1] ELSE <<>>,
        Version |-> IF Len(gv) = 2 THEN gv[2] ELSE gv[1],
        Resource |-> Resources[gi].APIResources[ki].Name]

\* Variant of Watched that skips the kinds the allow-list names.
WatchedInverted(watch, name) == ~(Len(watch) # 0 /\ contains(watch, name))

\* Line 156: the kind is skipped when an allow-list is set and does not name it.
Watched(watch, name) == ~(Len(watch) # 0 /\ ~contains(watch, name))

\* Lines 160-163: the kind is skipped unless its verbs allow list and delete.
CanListAndDelete(vs) ==
    ~(\/ ~StringsContains(VerbsString(vs), VerbChars("list"))
      \/ ~StringsContains(VerbsString(vs), VerbChars("delete")))

\* Lines 140-163: the first kind at or after (gi, ki) that DoReconcile lists,
\* <<0, 0>> when the loops end.
RECURSIVE NextKind(_, _, _)
NextKind(watch, gi, ki) ==
    IF gi > Len(Resources) THEN <<0, 0>>
    ELSE IF Len(Resources[gi].APIResources) = 0 THEN NextKind(watch, gi + 1, 1)
    ELSE IF ~GroupVersionOk(Resources[gi].GroupVersion) THEN NextKind(watch, gi + 1, 1)
    ELSE IF ki > Len(Resources[gi].APIResources) THEN NextKind(watch, gi + 1, 1)
    ELSE IF ~Watched(watch, Resources[gi].APIResources[ki].Name)
        THEN NextKind(watch, gi, ki + 1)
    ELSE IF ~CanListAndDelete(Resources[gi].APIResources[ki].Verbs)
        THEN NextKind(watch, gi, ki + 1)
    ELSE <<gi, ki>>

\* Variant of getStartTime that ignores the refresh annotation.
getStartTimeCreationOnly(item) == item.creationTimestamp

\* time.Parse returns the zero time with its error; the zero time lies before
\* every time of the model.
ZeroTime == 0 - 1000

\* Variant of getStartTime that does not check the error of time.Parse.
getStartTimeNoErrCheck(item) ==
    IF AnnotationRefreshedAt \in DOMAIN item.annotations
    THEN IF ParseRFC3339(item.annotations[AnnotationRefreshedAt]) # ParseError
         THEN ParseRFC3339(item.annotations[AnnotationRefreshedAt])
         ELSE ZeroTime
    ELSE item.creationTimestamp

\* getStartTime: the refresh annotation when it parses, else the creation time.
getStartTime(item) ==
    IF AnnotationRefreshedAt \in DOMAIN item.annotations
    THEN IF ParseRFC3339(item.annotations[AnnotationRefreshedAt]) # ParseError
         THEN ParseRFC3339(item.annotations[AnnotationRefreshedAt])
         ELSE item.creationTimestamp
    ELSE item.creationTimestamp

\* Variant of After that calls time.Time.Before.
Before(t, u) == t < u

\* Variant of After that also holds at the instant itself.
AfterOrEqual(t, u) == t >= u

\* time.Time.After: t is strictly after u.
After(t, u) == t > u

\* Durations that are reported are counted in quarters of a second.
Second == 4

Minute == 60 * Second

\* time.Duration.Round(m): d rounded to the nearest multiple of m, halfway values
\* away from zero.
Round(d, m) ==
    IF m <= 0 THEN d
    ELSE IF d < 0
         THEN LET r == (-d) % m
              IN IF r + r < m THEN d + r ELSE d - m + r
         ELSE LET r == d % m
              IN IF r + r < m THEN d - r ELSE d + m - r

\* The instant anchor + ttl of an item whose TTL parses, in quarters of a second.
ExpiresAt(object) ==
    (getStartTime(object) + ParseDuration(object.annotations[AnnotationTTL])) * Minute

\* Variant of DurationSinceExpired that does not round.
DurationSinceExpiredExact(object, clock) == clock - ExpiresAt(object)

\* Line 192: time.Since(getStartTime(item).Add(ttlInDuration)).Round(time.Second),
\* with the clock as time.Since reads it.
DurationSinceExpired(object, clock) == Round(clock - ExpiresAt(object), Second)

\* Variant of lines 185-189 that goes on with the zero duration after a parse error.
ParseDurationOrZero(str) == IF ParseDuration(str) = ParseError THEN 0 ELSE ParseDuration(str)

\* Variant of Evaluate that does not check the error of ParseDuration.
EvaluateNoErrCheck(item, t) ==
    IF AnnotationTTL \notin DOMAIN item.annotations THEN "NotAnnotated"
    ELSE IF After(t, getStartTime(item) + ParseDurationOrZero(item.annotations[AnnotationTTL]))
        THEN "Expired"
    ELSE "NotExpired"

\* Variant of Evaluate that reads a missing TTL annotation as the empty duration.
EvaluateNoExistsCheck(item, t) ==
    IF AnnotationTTL \notin DOMAIN item.annotations
    THEN IF After(t, getStartTime(item)) THEN "Expired" ELSE "NotExpired"
    ELSE IF ParseDuration(item.annotations[AnnotationTTL]) = ParseError THEN "Malformed"
    ELSE IF After(t, getStartTime(item) + ParseDuration(item.annotations[AnnotationTTL]))
        THEN "Expired"
    ELSE "NotExpired"

\* Lines 181-207 for one item at time t: what the loop body does with it.
Evaluate(item, t) ==
    IF AnnotationTTL \notin DOMAIN item.annotations THEN "NotAnnotated"
    ELSE IF ParseDuration(item.annotations[AnnotationTTL]) = ParseError THEN "Malformed"
    ELSE IF After(t, getStartTime(item) + ParseDuration(item.annotations[AnnotationTTL]))
        THEN "Expired"
    ELSE "NotExpired"

(***************************************************************************)
(* State                                                                   *)
(***************************************************************************)
\* A slot holds the goroutines, channels and locals of one Reconcile call.
Slots == 1..2

VARIABLES
    now,                    \* the wall clock, in minutes
    cluster,                \* ids of the objects the server still stores
    objects,                \* per id, the object as the server stores it
    apiResourcesToWatch,    \* the allow-list read by init()
    mainPc,                 \* main(): "idle", "select", "parked", "returned", "panicked"
    cur,                    \* the slot of the Reconcile call in progress, 0 if none
    err,                    \* the value the last Reconcile call returned
    executionFailedCounter,
    pass,                   \* number of Reconcile calls made so far
    lastDiscovery,          \* outcome of the last discovery request
    timer,                  \* per slot, the timer goroutine: "none", "sleeping", "done"
    timeout,                \* per slot, number of values buffered in channel timeout
    result,                 \* per slot, number of values buffered in channel result
    pipe,                   \* per slot, the goroutine running DoReconcile
    owner,                  \* per slot, the pass that started its goroutines
    before,                 \* per slot, the objects stored when its pass started
    evaluated,              \* per slot, the items the loop body has run for
    deletes,                \* per slot, the items a delete request was issued for
    failed,                 \* per slot, the kinds of request that failed: "list", "delete"
    alone,                  \* per slot, no older pipeline was running when it started
    first,                  \* per slot, which goroutine finished first: "timer", "pipe"
    listed,                 \* per slot, the resources a list request was issued for
    sent,                   \* per slot, the last page the server returned: resource, token
    served,                 \* per slot, the items of the pages the server returned
    completed,              \* per slot, the resources a page with an empty token ended
    deleteRequests,         \* per slot, the number of delete requests issued
    everFailed,             \* the items a delete request of any pass failed for
    events,                 \* per slot, the events handed to the event recorder, in order
    evalItem,               \* lines 190-193 alone: the id of the item, 0 for none
    reading,                \* the clock as line 190 reads it, in quarters of a second
    ttlExpired,             \* line 190: "none", "true", "false", then "reported"
    durationSinceExpired    \* the overshoot line 193 logs, 0 before it is computed

vars == <<now, cluster, objects, apiResourcesToWatch, mainPc, cur, err,
          executionFailedCounter, pass, lastDiscovery, timer, timeout, result, pipe,
          owner, before, evaluated, deletes, failed, alone, first, listed, sent,
          served, completed, deleteRequests, everFailed, events, evalItem, reading,
          ttlExpired, durationSinceExpired>>

\* What the process reads and never writes: its allow-list and the stored objects.
fixedVars == <<apiResourcesToWatch, objects>>

\* The variables of the evaluation of one item taken alone (lines 190-193).
evalVars == <<evalItem, reading, ttlExpired, durationSinceExpired>>

mainVars == <<mainPc, cur, err, executionFailedCounter, pass, lastDiscovery>>

chanVars == <<timeout, result>>

histVars == <<owner, before, evaluated, deletes, failed, alone>>

\* What the API server saw of each pipeline.
logVars == <<listed, sent, served, completed, deleteRequests, everFailed, events>>

\* No page returned yet.
NoPage == [Resource |-> "", Continue |-> 0]

\* The locals of DoReconcile: position in the two range loops (gi, ki), list == nil,
\* continueToken, list.Items and the position in it.
PipeAt(pc, gi, ki, listNil, tok, items, ii) ==
    [pc |-> pc, gi |-> gi, ki |-> ki, listNil |-> listNil, continueToken |-> tok,
     items |-> items, ii |-> ii]

NoPipe == PipeAt("none", 0, 0, TRUE, 0, <<>>, 0)

\* The state in which main enters its loop for the (n+1)-th time after n passes in
\* which the discovery request failed: nothing was listed or deleted, no goroutine
\* was started, and executionFailedCounter was incremented n times (lines 75-77).
StartedAfter(n) ==
    /\ now = StartTime
    /\ cluster = ItemIds
    /\ objects = Items
    /\ apiResourcesToWatch \in AllowLists
    /\ mainPc = "idle"
    /\ cur = 0
    /\ err = IF n = 0 THEN ErrNil ELSE ErrDiscovery
    /\ executionFailedCounter = n
    /\ pass = 0
    /\ lastDiscovery = IF n = 0 THEN "none" ELSE "failed"
    /\ timer = [s \in Slots |-> "none"]
    /\ timeout = [s \in Slots |-> 0]
    /\ result = [s \in Slots |-> 0]
    /\ pipe = [s \in Slots |-> NoPipe]
    /\ owner = [s \in Slots |-> 0]
    /\ before = [s \in Slots |-> {}]
    /\ evaluated = [s \in Slots |-> {}]
    /\ deletes = [s \in Slots |-> {}]
    /\ failed = [s \in Slots |-> {}]
    /\ alone = [s \in Slots |-> TRUE]
    /\ first = [s \in Slots |-> "none"]
    /\ listed = [s \in Slots |-> {}]
    /\ sent = [s \in Slots |-> NoPage]
    /\ served = [s \in Slots |-> {}]
    /\ completed = [s \in Slots |-> {}]
    /\ deleteRequests = [s \in Slots |-> 0]
    /\ everFailed = {}
    /\ events = [s \in Slots |-> <<>>]

\* No item is evaluated alone.
EvalIdle ==
    /\ evalItem = 0
    /\ reading = 0
    /\ ttlExpired = "none"
    /\ durationSinceExpired = 0

\* Line 39: the process starts with executionFailedCounter = 0.
Init == StartedAfter(0) /\ EvalIdle

\* Line 79: a panic of main ends the process and every goroutine with it.
Alive == mainPc # "panicked"

(***************************************************************************)
(* The clock                                                               *)
(***************************************************************************)
Tick ==
    /\ now < MaxTime
    /\ now' = now + 1
    /\ UNCHANGED <<cluster, fixedVars, evalVars, mainVars, timer, chanVars,
                   pipe, histVars, first, logVars>>

(***************************************************************************)
(* DoReconcile, one step per request or sleep                              *)
(***************************************************************************)
\* Variant of EnterKind that returns true once the first kind has been listed.
EnterKindOnce(watch, gi, ki) ==
    LET p == NextKind(watch, gi, ki)
    IN IF p = <<0, 0>> \/ <<gi, ki>> # <<1, 1>>
       THEN PipeAt("return", 0, 0, TRUE, 0, <<>>, 0)
       ELSE PipeAt("list", p[1], p[2], TRUE, 0, <<>>, 0)

\* Lines 164-170: enter the first kind at or after (gi, ki) with fresh locals, or
\* leave the loops (line 216).
EnterKind(watch, gi, ki) ==
    LET p == NextKind(watch, gi, ki)
    IN IF p = <<0, 0>> THEN PipeAt("return", 0, 0, TRUE, 0, <<>>, 0)
       ELSE PipeAt("list", p[1], p[2], TRUE, 0, <<>>, 0)

\* Variant of NextItem that leaves the page after its first item.
NextItemLeavesPage(p) == [p EXCEPT !.pc = "sleepPage", !.items = <<>>, !.ii = 0]

\* Line 180: go on to the next item of the page, or to the sleep after the page.
NextItem(p) ==
    IF p.ii < Len(p.items) THEN [p EXCEPT !.pc = "item", !.ii = p.ii + 1]
    ELSE [p EXCEPT !.pc = "sleepPage", !.items = <<>>, !.ii = 0]

\* Variant of ListFailed that gives the kind up after a failed list request.
ListFailedSkipsKind(p) == [p EXCEPT !.pc = "sleepKind", !.listNil = TRUE]

\* Variant of ListFailed that starts the listing of the kind again.
ListFailedDropsToken(p) == [p EXCEPT !.listNil = TRUE, !.continueToken = 0]

\* Lines 171-175: a list request that fails; list is nil and the loop continues.
ListFailed(p) == [p EXCEPT !.listNil = TRUE]

\* Variant of ListSucceeded that does not keep the continuation token.
ListSucceededOnePage(p, page) ==
    IF Len(page.Items) = 0
    THEN [p EXCEPT !.pc = "sleepPage", !.listNil = FALSE, !.continueToken = 0]
    ELSE [p EXCEPT !.pc = "item", !.listNil = FALSE, !.continueToken = 0,
                   !.items = page.Items, !.ii = 1]

\* Lines 171-180: a list request that returns a page.
ListSucceeded(p, page) ==
    IF Len(page.Items) = 0
    THEN [p EXCEPT !.pc = "sleepPage", !.listNil = FALSE, !.continueToken = page.Continue]
    ELSE [p EXCEPT !.pc = "item", !.listNil = FALSE, !.continueToken = page.Continue,
                   !.items = page.Items, !.ii = 1]

PipeList(s) ==
    /\ Alive
    /\ pipe[s].pc = "list"
    /\ LET gvr == GVR(pipe[s].gi, pipe[s].ki)
           page == ServerList(cluster, gvr, pipe[s].continueToken)
       IN /\ listed' = [listed EXCEPT ![s] = @ \cup {gvr.Resource}]
          /\ \/ /\ ServerKnows(gvr)
                /\ ServerSupports(gvr.Resource, "list")
                /\ pipe' = [pipe EXCEPT ![s] = ListSucceeded(@, page)]
                /\ sent' = [sent EXCEPT ![s] =
                               [Resource |-> gvr.Resource, Continue |-> page.Continue]]
                /\ served' = [served EXCEPT ![s] =
                                 @ \cup { page.Items[n] : n \in 1..Len(page.Items) }]
                /\ completed' = [completed EXCEPT ![s] =
                                    IF page.Continue = 0 THEN @ \cup {gvr.Resource} ELSE @]
                /\ UNCHANGED failed
             \/ /\ pipe' = [pipe EXCEPT ![s] = ListFailed(@)]
                /\ failed' = [failed EXCEPT ![s] = @ \cup {"list"}]
                /\ UNCHANGED <<sent, served, completed>>
    /\ UNCHANGED <<now, cluster, fixedVars, evalVars, mainVars, timer,
                   chanVars, owner, before, evaluated, deletes, alone, first,
                   deleteRequests, everFailed, events>>

\* kevent.go lines 35-53: EventManager.Create hands the recorder one event about the
\* named object, of type Warning or Normal.
Create(resourceName, reason, message, isWarning) ==
    [name |-> resourceName, type |-> IF isWarning THEN "Warning" ELSE "Normal",
     reason |-> reason, message |-> message]

\* The text of the error a failed delete request returns.
ErrDelete == "delete failed"

\* Line 181: the value read from the TTL annotation, the empty string when absent.
TTLText(item) ==
    IF AnnotationTTL \in DOMAIN item.annotations
    THEN item.annotations[AnnotationTTL]
    ELSE ""

\* Variant of DeleteEvent that reports every delete request as done.
DeleteEventAlwaysDeleted(item, deleted) ==
    Create(item.name, "DeletedExpiredTTL",
           <<"Deleted resource because ", TTLText(item),
             " or more has elapsed">>, FALSE)

\* Lines 195-202: the event created after the delete request for item.
DeleteEvent(item, deleted) ==
    IF deleted
    THEN Create(item.name, "DeletedExpiredTTL",
                <<"Deleted resource because ", TTLText(item),
                  " or more has elapsed">>, FALSE)
    ELSE Create(item.name, "FailedToDeleteExpiredTTL",
                <<"Unable to delete expired resource:", ErrDelete>>, TRUE)

\* Variant of AfterDelete that sleeps only when the item was deleted.
AfterDeleteNoSleepOnFailure(p, deleted) ==
    IF deleted THEN [p EXCEPT !.pc = "sleepDelete"] ELSE NextItem(p)

\* Variant of AfterDelete that runs the loop body again for the same item when the
\* delete request failed.
AfterDeleteRetry(p, deleted) == IF deleted THEN [p EXCEPT !.pc = "sleepDelete"] ELSE p

\* Lines 194-204: after the delete request, failed or not, the events and the sleep.
AfterDelete(p, deleted) == [p EXCEPT !.pc = "sleepDelete"]

\* Variant of Written that stamps the refresh annotation of the item with the time
\* of its evaluation.
WrittenRefreshedAt(store, i) ==
    [store EXCEPT ![i].annotations =
        (AnnotationRefreshedAt :> "2024-12-08T20:03:00Z") @@ @]

\* Lines 181-207: the loop body reads the item of the page and sends no update or
\* patch request for it; what the server stores of item i stays as it is.
Written(store, i) == store

\* Lines 181-207: evaluate one item; delete it when its TTL expired.
PipeItem(s) ==
    /\ Alive
    /\ pipe[s].pc = "item"
    /\ LET i == pipe[s].items[pipe[s].ii]
           gvr == GVR(pipe[s].gi, pipe[s].ki)
       IN /\ evaluated' = [evaluated EXCEPT ![s] = @ \cup {i}]
          /\ objects' = Written(objects, i)
          /\ IF Evaluate(objects[i], now) = "Expired"
             THEN /\ deletes' = [deletes EXCEPT ![s] = @ \cup {i}]
                  /\ deleteRequests' = [deleteRequests EXCEPT ![s] = @ + 1]
                  /\ \/ /\ ServerCanDelete(cluster, gvr, i)
                        /\ cluster' = cluster \ {i}
                        /\ pipe' = [pipe EXCEPT ![s] = AfterDelete(@, TRUE)]
                        /\ events' = [events EXCEPT ![s] =
                                         Append(@, DeleteEvent(objects[i], TRUE))]
                        /\ UNCHANGED <<failed, everFailed>>
                     \/ /\ failed' = [failed EXCEPT ![s] = @ \cup {"delete"}]
                        /\ everFailed' = everFailed \cup {i}
                        /\ pipe' = [pipe EXCEPT ![s] = AfterDelete(@, FALSE)]
                        /\ events' = [events EXCEPT ![s] =
                                         Append(@, DeleteEvent(objects[i], FALSE))]
                        /\ UNCHANGED cluster
             ELSE /\ pipe' = [pipe EXCEPT ![s] = NextItem(@)]
                  /\ UNCHANGED <<cluster, deletes, failed, deleteRequests, everFailed,
                                 events>>
    /\ UNCHANGED <<now, apiResourcesToWatch, evalVars, mainVars, timer, chanVars, owner,
                   before, alone, first, listed, sent, served, completed>>

\* Line 204: the sleep after a delete request.
PipeSleepDelete(s) ==
    /\ Alive
    /\ pipe[s].pc = "sleepDelete"
    /\ pipe' = [pipe EXCEPT ![s] = NextItem(@)]
    /\ UNCHANGED <<now, cluster, fixedVars, evalVars, mainVars, timer, chanVars,
                   histVars, first, logVars>>

\* Variant of AfterPage whose loop condition looks at list == nil only.
AfterPageIgnoresToken(p) ==
    IF p.listNil THEN [p EXCEPT !.pc = "list"] ELSE [p EXCEPT !.pc = "sleepKind"]

\* Lines 210 and 170: the sleep after a page, then the loop condition.
AfterPage(p) ==
    IF p.listNil \/ p.continueToken # 0 THEN [p EXCEPT !.pc = "list"]
    ELSE [p EXCEPT !.pc = "sleepKind"]

PipeSleepPage(s) ==
    /\ Alive
    /\ pipe[s].pc = "sleepPage"
    /\ pipe' = [pipe EXCEPT ![s] = AfterPage(@)]
    /\ UNCHANGED <<now, cluster, fixedVars, evalVars, mainVars, timer,
                   chanVars, histVars, first, logVars>>

\* Line 213: the sleep after a kind, then the next kind.
PipeSleepKind(s) ==
    /\ Alive
    /\ pipe[s].pc = "sleepKind"
    /\ pipe' = [pipe EXCEPT ![s] = EnterKind(apiResourcesToWatch, @.gi, @.ki + 1)]
    /\ UNCHANGED <<now, cluster, fixedVars, evalVars, mainVars, timer,
                   chanVars, histVars, first, logVars>>

\* Variant of CanSend for channels made without a buffer: a send goes through only
\* when a receiver is parked on the channel.
CanSendUnbuffered(n, receiverParked) == receiverParked

\* A send on a channel that holds n values goes through when a receiver is parked on
\* the channel or the buffer has room; otherwise the sender blocks.
CanSend(n, receiverParked) == receiverParked \/ n < ChanCapacity

\* Lines 216 and 107: DoReconcile returns true and the goroutine sends it on result.
\* A receiver parked in the select takes the value at once; otherwise it is buffered.
PipeReturn(s) ==
    /\ Alive
    /\ pipe[s].pc = "return"
    /\ CanSend(result[s], mainPc = "parked" /\ cur = s)
    /\ pipe' = [pipe EXCEPT ![s] = PipeAt("done", 0, 0, TRUE, 0, <<>>, 0)]
    /\ first' = [first EXCEPT ![s] = IF @ = "none" THEN "pipe" ELSE @]
    /\ IF mainPc = "parked" /\ cur = s
       THEN /\ mainPc' = "returned"
            /\ err' = ErrNil
            /\ UNCHANGED result
       ELSE /\ result' = [result EXCEPT ![s] = @ + 1]
            /\ UNCHANGED <<mainPc, err>>
    /\ UNCHANGED <<now, cluster, fixedVars, evalVars, cur,
                   executionFailedCounter, pass, lastDiscovery, timer, timeout,
                   histVars, logVars>>

(***************************************************************************)
(* The timer goroutine of Reconcile                                        *)
(***************************************************************************)
\* Variant of TimerFire that also stops the goroutine running DoReconcile.
TimerFireCancels(s) ==
    /\ Alive
    /\ timer[s] = "sleeping"
    /\ CanSend(timeout[s], mainPc = "parked" /\ cur = s)
    /\ timer' = [timer EXCEPT ![s] = "done"]
    /\ pipe' = [pipe EXCEPT ![s] = PipeAt("done", 0, 0, TRUE, 0, <<>>, 0)]
    /\ first' = [first EXCEPT ![s] = IF @ = "none" THEN "timer" ELSE @]
    /\ IF mainPc = "parked" /\ cur = s
       THEN /\ mainPc' = "returned"
            /\ err' = ErrTimedOut
            /\ UNCHANGED timeout
       ELSE /\ timeout' = [timeout EXCEPT ![s] = @ + 1]
            /\ UNCHANGED <<mainPc, err>>
    /\ UNCHANGED <<now, cluster, fixedVars, evalVars, cur,
                   executionFailedCounter, pass, lastDiscovery, result, histVars,
                   logVars>>

\* Variant of TimerFire in which the sleep of ExecutionTimeout starts only once
\* DoReconcile has returned.
TimerFireAfterPipeline(s) ==
    /\ Alive
    /\ timer[s] = "sleeping"
    /\ CanSend(timeout[s], mainPc = "parked" /\ cur = s)
    /\ pipe[s].pc = "done"
    /\ timer' = [timer EXCEPT ![s] = "done"]
    /\ first' = [first EXCEPT ![s] = IF @ = "none" THEN "timer" ELSE @]
    /\ IF mainPc = "parked" /\ cur = s
       THEN /\ mainPc' = "returned"
            /\ err' = ErrTimedOut
            /\ UNCHANGED timeout
       ELSE /\ timeout' = [timeout EXCEPT ![s] = @ + 1]
            /\ UNCHANGED <<mainPc, err>>
    /\ UNCHANGED <<now, cluster, fixedVars, evalVars, cur,
                   executionFailedCounter, pass, lastDiscovery, result, pipe, histVars,
                   logVars>>

\* Lines 102-105: the sleep of ExecutionTimeout ends and true is sent on timeout.
TimerFire(s) ==
    /\ Alive
    /\ timer[s] = "sleeping"
    /\ CanSend(timeout[s], mainPc = "parked" /\ cur = s)
    /\ timer' = [timer EXCEPT ![s] = "done"]
    /\ first' = [first EXCEPT ![s] = IF @ = "none" THEN "timer" ELSE @]
    /\ IF mainPc = "parked" /\ cur = s
       THEN /\ mainPc' = "returned"
            /\ err' = ErrTimedOut
            /\ UNCHANGED timeout
       ELSE /\ timeout' = [timeout EXCEPT ![s] = @ + 1]
            /\ UNCHANGED <<mainPc, err>>
    /\ UNCHANGED <<now, cluster, fixedVars, evalVars, cur,
                   executionFailedCounter, pass, lastDiscovery, result, pipe, histVars,
                   logVars>>

(***************************************************************************)
(* Reconcile and main                                                      *)
(***************************************************************************)
\* The slots whose goroutines have all ended and that no Reconcile call waits on.
FreeSlots ==
    { s \in 1..SlotsFor(apiResourcesToWatch) :
        pipe[s].pc \in {"none", "done"} /\ timer[s] # "sleeping" /\ cur # s }

\* Lines 100-108: make the two channels and start the two goroutines in slot s.
Spawn(s) ==
    /\ timeout' = [timeout EXCEPT ![s] = 0]
    /\ result' = [result EXCEPT ![s] = 0]
    /\ timer' = [timer EXCEPT ![s] = "sleeping"]
    /\ pipe' = [pipe EXCEPT ![s] = EnterKind(apiResourcesToWatch, 1, 1)]
    /\ owner' = [owner EXCEPT ![s] = pass + 1]
    /\ before' = [before EXCEPT ![s] = cluster]
    /\ evaluated' = [evaluated EXCEPT ![s] = {}]
    /\ deletes' = [deletes EXCEPT ![s] = {}]
    /\ failed' = [failed EXCEPT ![s] = {}]
    /\ alone' = [alone EXCEPT ![s] =
                   \A t \in Slots \ {s} : pipe[t].pc \in {"none", "done"}]
    /\ first' = [first EXCEPT ![s] = "none"]
    /\ listed' = [listed EXCEPT ![s] = {}]
    /\ sent' = [sent EXCEPT ![s] = NoPage]
    /\ served' = [served EXCEPT ![s] = {}]
    /\ completed' = [completed EXCEPT ![s] = {}]
    /\ deleteRequests' = [deleteRequests EXCEPT ![s] = 0]
    /\ events' = [events EXCEPT ![s] = <<>>]
    /\ UNCHANGED everFailed

\* Variant of ReconcileDiscoveryFailed that looks at the error of the discovery
\* request only after the goroutines were started.
ReconcileDiscoveryFailedLate ==
    /\ mainPc = "idle"
    /\ pass < MaxPasses
    /\ FreeSlots # {}
    /\ Spawn(CHOOSE x \in FreeSlots : \A y \in FreeSlots : x <= y)
    /\ pass' = pass + 1
    /\ lastDiscovery' = "failed"
    /\ mainPc' = "returned"
    /\ err' = ErrDiscovery
    /\ cur' = 0
    /\ UNCHANGED <<now, cluster, fixedVars, evalVars,
                   executionFailedCounter>>

\* Lines 95-98: the discovery request fails and Reconcile returns its error.
ReconcileDiscoveryFailed ==
    /\ mainPc = "idle"
    /\ pass < MaxPasses
    /\ pass' = pass + 1
    /\ lastDiscovery' = "failed"
    /\ mainPc' = "returned"
    /\ err' = ErrDiscovery
    /\ cur' = 0
    /\ UNCHANGED <<now, cluster, fixedVars, evalVars,
                   executionFailedCounter, timer, chanVars, pipe, histVars, first,
                   logVars>>

\* Lines 95-109: discovery succeeds, the goroutines start, main reaches the select.
ReconcileStart ==
    /\ mainPc = "idle"
    /\ pass < MaxPasses
    /\ FreeSlots # {}
    /\ LET s == CHOOSE x \in FreeSlots : \A y \in FreeSlots : x <= y
       IN /\ Spawn(s)
          /\ cur' = s
    /\ pass' = pass + 1
    /\ lastDiscovery' = "ok"
    /\ mainPc' = "select"
    /\ UNCHANGED <<now, cluster, fixedVars, evalVars, err,
                   executionFailedCounter>>

\* Lines 109-114: the select.  With a value ready on either channel it takes one
\* of the ready cases; with none it parks until a goroutine sends.
Select ==
    /\ mainPc = "select"
    /\ \/ /\ timeout[cur] > 0
          /\ timeout' = [timeout EXCEPT ![cur] = @ - 1]
          /\ err' = ErrTimedOut
          /\ mainPc' = "returned"
          /\ UNCHANGED result
       \/ /\ result[cur] > 0
          /\ result' = [result EXCEPT ![cur] = @ - 1]
          /\ err' = ErrNil
          /\ mainPc' = "returned"
          /\ UNCHANGED timeout
       \/ /\ timeout[cur] = 0
          /\ result[cur] = 0
          /\ mainPc' = "parked"
          /\ UNCHANGED <<err, timeout, result>>
    /\ UNCHANGED <<now, cluster, fixedVars, evalVars, cur,
                   executionFailedCounter, pass, lastDiscovery, timer, pipe, histVars,
                   first, logVars>>

\* Variant of MainAfterReconcile that panics as soon as the counter reaches
\* MaximumFailedExecutionBeforePanic.
MainAfterReconcilePanicsAtLimit ==
    /\ mainPc = "returned"
    /\ IF err # ErrNil
       THEN /\ executionFailedCounter' = executionFailedCounter + 1
            /\ mainPc' = IF executionFailedCounter + 1 >= MaximumFailedExecutionBeforePanic
                         THEN "panicked" ELSE "idle"
       ELSE /\ executionFailedCounter' = 0
            /\ mainPc' = "idle"
    /\ cur' = 0
    /\ UNCHANGED <<now, cluster, fixedVars, evalVars, err, pass,
                   lastDiscovery, timer, chanVars, pipe, histVars, first, logVars>>

\* Lines 75-86 of main: count the failure or reset the counter, panic after too
\* many failures, else sleep ExecutionInterval and loop.
MainAfterReconcile ==
    /\ mainPc = "returned"
    /\ IF err # ErrNil
       THEN /\ executionFailedCounter' = executionFailedCounter + 1
            /\ mainPc' = IF executionFailedCounter + 1 > MaximumFailedExecutionBeforePanic
                         THEN "panicked" ELSE "idle"
       ELSE /\ executionFailedCounter' = 0
            /\ mainPc' = "idle"
    /\ cur' = 0
    /\ UNCHANGED <<now, cluster, fixedVars, evalVars, err, pass,
                   lastDiscovery, timer, chanVars, pipe, histVars, first, logVars>>

Next ==
    \/ Tick
    \/ ReconcileDiscoveryFailed
    \/ ReconcileStart
    \/ Select
    \/ MainAfterReconcile
    \/ \E s \in Slots :
        \/ TimerFire(s)
        \/ PipeList(s)
        \/ PipeItem(s)
        \/ PipeSleepDelete(s)
        \/ PipeSleepPage(s)
        \/ PipeSleepKind(s)
        \/ PipeReturn(s)

Spec == Init /\ [][Next]_vars

\* The goroutines of Go are scheduled fairly: the main goroutine reaches its select
\* (line 109) and the sleep of a timer goroutine ends (lines 103-104).  Nothing is
\* assumed of the API server, so a pipeline may wait on a request forever.
LiveSpec ==
    /\ Init
    /\ [][Next]_vars
    /\ WF_vars(Select)
    /\ \A s \in Slots : WF_vars(TimerFire(s))

\* The passes that end in a panic.  main panics only after more failed passes in a
\* row than MaxPasses allows from the start of the process, so this specification
\* starts where executionFailedCounter is MaxPasses short of the panic, which is
\* where the process is after that many failed discovery requests.
FailedBefore == MaximumFailedExecutionBeforePanic + 1 - MaxPasses

PanicInit == StartedAfter(FailedBefore) /\ EvalIdle

PanicSpec == PanicInit /\ [][Next]_vars

(***************************************************************************)
(* Lines 190-193 for one item, with the clock in quarters of a second      *)
(***************************************************************************)
\* The items the loop body reaches line 190 for: the TTL is there and parses.
WithTTL ==
    { i \in ItemIds :
        /\ AnnotationTTL \in DOMAIN Items[i].annotations
        /\ ParseDuration(Items[i].annotations[AnnotationTTL]) # ParseError }

\* The readings of the clock: up to MaxElapsed quarters of a second into a minute.
Readings == { m * Minute + q : m \in 0..MaxTime, q \in 0..MaxElapsed }

\* An item of a page and the clock at line 190, nothing else of the process moving.
EvalInit ==
    /\ StartedAfter(0)
    /\ evalItem \in WithTTL
    /\ reading \in Readings
    /\ ttlExpired = "none"
    /\ durationSinceExpired = 0

\* Line 190: ttlExpired := time.Now().After(getStartTime(item).Add(ttlInDuration)).
EvalDecide ==
    /\ ttlExpired = "none"
    /\ ttlExpired' = IF After(reading, ExpiresAt(objects[evalItem])) THEN "true" ELSE "false"
    /\ UNCHANGED <<now, cluster, fixedVars, evalItem, reading, durationSinceExpired, mainVars,
                   timer, chanVars, pipe, histVars, first, logVars>>

\* Lines 191-193: when expired, time.Since reads the clock again, elapsed later,
\* and the rounded overshoot is logged.
EvalReport ==
    /\ ttlExpired = "true"
    /\ \E elapsed \in 0..MaxElapsed :
           durationSinceExpired' = DurationSinceExpired(objects[evalItem], reading + elapsed)
    /\ ttlExpired' = "reported"
    /\ UNCHANGED <<now, cluster, fixedVars, evalItem, reading, mainVars, timer, chanVars,
                   pipe, histVars, first, logVars>>

EvalNext == EvalDecide \/ EvalReport

EvalSpec == EvalInit /\ [][EvalNext]_vars

(***************************************************************************)
(* What the claims speak about                                             *)
(***************************************************************************)
HasTTL(i) == AnnotationTTL \in DOMAIN Items[i].annotations

TTLOf(i) == ParseDuration(Items[i].annotations[AnnotationTTL])

TTLParses(i) == HasTTL(i) /\ TTLOf(i) # ParseError

TTLMalformed(i) == HasTTL(i) /\ TTLOf(i) = ParseError

HasRefresh(i) == AnnotationRefreshedAt \in DOMAIN Items[i].annotations

RefreshOf(i) == ParseRFC3339(Items[i].annotations[AnnotationRefreshedAt])

RefreshParses(i) == HasRefresh(i) /\ RefreshOf(i) # ParseError

\* The expiry anchor: the refresh timestamp when there is a valid one, else creation.
AnchorOf(i) == IF RefreshParses(i) THEN RefreshOf(i) ELSE Items[i].creationTimestamp

\* The TTL of object i parses and anchor + ttl lies strictly before time t.
ExpiredAt(i, t) == TTLParses(i) /\ AnchorOf(i) + TTLOf(i) < t

\* The kind of object i is eligible: its group/version has at most one slash, its
\* verbs include list and delete, and the allow-list is empty or names it.
EligibleKind(i) ==
    LET p == EntryOf(Items[i].resource)
        gv == Resources[p[1]].GroupVersion
        kind == Resources[p[1]].APIResources[p[2]]
        verbs == { kind.Verbs[n] : n \in 1..Len(kind.Verbs) }
        watch == { apiResourcesToWatch[n] : n \in 1..Len(apiResourcesToWatch) }
    IN /\ Cardinality({ n \in 1..Len(gv) : gv[n] = "/" }) <= 1
       /\ {"list", "delete"} \subseteq verbs
       /\ watch = {} \/ kind.Name \in watch

\* This step is the loop body of DoReconcile in slot s running for one item.
Evaluating(s) == pipe[s].pc = "item" /\ pipe'[s] # pipe[s]

\* The item the loop body of slot s is about to run for.
ItemAt(s) == pipe[s].items[pipe[s].ii]

\* This step issues a delete request for item i from slot s.
DeleteIssued(s, i) == i \in deletes'[s] /\ i \notin deletes[s]

\* The pipeline of slot s has left its loops.
Finished(s) == pipe[s].pc \in {"return", "done"}

\* The Reconcile call in progress has returned a value to main.
Returned == mainPc = "returned"

\* Reconcile returned success from a pass that ran with no older pipeline alive and
\* whose list and delete requests all succeeded.
ReturnedClean == Returned /\ err = ErrNil /\ cur # 0 /\ failed[cur] = {} /\ alone[cur]

(***************************************************************************)
(* C1                                                                      *)
(***************************************************************************)
C1_AtReturn ==
    /\ ReturnedClean =>
            /\ \A i \in before[cur] : EligibleKind(i) => i \in evaluated[cur]
            /\ \A i \in before[cur] \ cluster : i \in evaluated[cur]
            /\ cluster \subseteq before[cur]
    /\ (Returned /\ err = ErrNil /\ cur # 0 /\ failed[cur] = {}) =>
            /\ \A i \in before[cur] :
                   EligibleKind(i) => (i \in evaluated[cur] \/ i \notin cluster)
            /\ deletes[cur] \cap cluster = {}
            /\ \A i \in ItemIds \ cluster : EligibleKind(i) /\ ExpiredAt(i, now)

C1_AtEvaluation ==
    \A s \in Slots :
        (Evaluating(s) /\ s = cur /\ alone[s] /\ failed'[s] = {}) =>
            /\ ItemAt(s) \in cluster
            /\ ItemAt(s) \in cluster' <=> ~(EligibleKind(ItemAt(s)) /\ ExpiredAt(ItemAt(s), now))

\* C1: after a Reconcile call that returns success and whose list and delete
\* requests all succeeded, every object of an eligible kind was evaluated, an object
\* is gone exactly when it was evaluated in the pass, and an evaluated object is
\* gone exactly when it is of an eligible kind, its TTL parses and anchor + ttl lay
\* strictly before the time of its evaluation.  When the pipeline of an earlier,
\* timed-out call is still running beside the call, every object of an eligible kind
\* was still evaluated or is gone, what the call deleted is gone, and whatever is
\* gone was of an eligible kind and expired.
C1_ExactlyExpiredDeleted == []C1_AtReturn /\ [][C1_AtEvaluation]_vars

\* Reconcile returned success at minute 3 with everything watched: the two objects
\* expired by then are gone, the six others are still there.
C1_Witness ==
    /\ ReturnedClean
    /\ apiResourcesToWatch = <<>>
    /\ before[cur] = ItemIds
    /\ deletes[cur] = {3, 6}
    /\ cluster = ItemIds \ {3, 6}

(***************************************************************************)
(* C2                                                                      *)
(***************************************************************************)
\* C2: no pipeline has issued a delete request for an object without the TTL
\* annotation, and every such object is still stored.
C2_UnannotatedNeverDeleted ==
    \A i \in ItemIds : ~HasTTL(i) =>
        /\ i \in cluster
        /\ \A s \in Slots : i \notin deletes[s]

\* Object 5 has no TTL annotation, a refresh annotation and is 4 minutes old; the
\* second pass has evaluated it at the last minute of the clock, after the expired
\* object 4 of the same page.
C2_Witness ==
    /\ ~HasTTL(5) /\ HasRefresh(5)
    /\ pass >= 2
    /\ now = MaxTime
    /\ cur # 0
    /\ evaluated[cur] = {4, 5}
    /\ 4 \in deletes[cur]
    /\ pipe[cur].pc = "sleepPage"

(***************************************************************************)
(* C3                                                                      *)
(***************************************************************************)
C3_AtEvaluation ==
    \A s \in Slots :
        (Evaluating(s) /\ TTLParses(ItemAt(s))) =>
            (DeleteIssued(s, ItemAt(s)) <=>
                now > AnchorOf(ItemAt(s)) + TTLOf(ItemAt(s)))

\* C3: the loop body issues a delete request for an object with a parseable TTL iff
\* the time of the evaluation is strictly after anchor + ttl.
C3_DeleteIffStrictlyAfter == [][C3_AtEvaluation]_vars

\* Object 3 has anchor 1 and TTL 1: one pass evaluated it at minute 2 = anchor + ttl
\* and issued no delete, another evaluated it later and issued one.
C3_Witness ==
    /\ AnchorOf(3) + TTLOf(3) = StartTime
    /\ \E s, t \in Slots :
        /\ 3 \in evaluated[s] /\ 3 \notin deletes[s]
        /\ 3 \in deletes[t]

(***************************************************************************)
(* C4                                                                      *)
(***************************************************************************)
\* The loop body of slot s leaves the item for the next one of the page, or for
\* the sleep after the page when the item was the last one, without a delete.
SkipsToNext(s) ==
    /\ pipe'[s] = IF pipe[s].ii < Len(pipe[s].items)
                  THEN [pipe[s] EXCEPT !.ii = @ + 1]
                  ELSE [pipe[s] EXCEPT !.pc = "sleepPage", !.items = <<>>, !.ii = 0]
    /\ UNCHANGED <<cluster, deletes>>

\* A pipeline that evaluated object m and left its loops has evaluated every
\* stored object of an eligible kind that the server lists after m.
WentOnAfter(s, m) ==
    (Finished(s) /\ m \in evaluated[s]) =>
        \A i \in cluster : (i > m /\ EligibleKind(i)) => i \in evaluated[s]

C4_Kept ==
    \A i \in ItemIds : TTLMalformed(i) =>
        /\ i \in cluster
        /\ \A s \in Slots : i \notin deletes[s]
        /\ \A s \in Slots : WentOnAfter(s, i)

C4_AtEvaluation ==
    \A s \in Slots : (Evaluating(s) /\ TTLMalformed(ItemAt(s))) => SkipsToNext(s)

\* C4: an object whose TTL annotation does not parse is never deleted and no delete
\* request is issued for it; the loop body goes on with the next item of the page,
\* and a pipeline that met it still evaluates the objects of the later pages and
\* kinds before it ends.
C4_MalformedSkipped == []C4_Kept /\ [][C4_AtEvaluation]_vars

\* A pipeline met the malformed object 1 and left its loops after evaluating
\* object 2 of the same page, object 3 of the next page and object 5 of a later kind.
C4_Witness ==
    /\ TTLMalformed(1)
    /\ \E s \in Slots : Finished(s) /\ {1, 2, 3, 5} \subseteq evaluated[s]

(***************************************************************************)
(* C5                                                                      *)
(***************************************************************************)
C5_AtEvaluation ==
    \A s \in Slots :
        (Evaluating(s) /\ RefreshParses(ItemAt(s)) /\ TTLParses(ItemAt(s))) =>
            (DeleteIssued(s, ItemAt(s)) <=>
                now > RefreshOf(ItemAt(s)) + TTLOf(ItemAt(s)))

\* C5: for an object with a parseable TTL and a refresh annotation that parses, a
\* delete request is issued iff the time of the evaluation is strictly after
\* refresh + ttl, whatever the creation timestamp is.
C5_RefreshIsTheAnchor == [][C5_AtEvaluation]_vars

\* At minute 3 one pass kept object 4 (refreshed after its creation; creation + ttl
\* has passed) and issued a delete for object 6 (refreshed before its creation;
\* creation + ttl has not passed).
C5_Witness ==
    /\ RefreshOf(4) > Items[4].creationTimestamp
    /\ Items[4].creationTimestamp + TTLOf(4) < 3
    /\ RefreshOf(6) < Items[6].creationTimestamp
    /\ Items[6].creationTimestamp + TTLOf(6) >= 3
    /\ now = 3
    /\ \E s \in Slots : 4 \in evaluated[s] /\ 4 \notin deletes[s] /\ 6 \in deletes[s]

(***************************************************************************)
(* C6                                                                      *)
(***************************************************************************)
C6_AtEvaluation ==
    \A s \in Slots :
        (Evaluating(s) /\ HasRefresh(ItemAt(s)) /\ ~RefreshParses(ItemAt(s))
                       /\ TTLParses(ItemAt(s))) =>
            /\ DeleteIssued(s, ItemAt(s)) <=>
                  now > Items[ItemAt(s)].creationTimestamp + TTLOf(ItemAt(s))
            /\ pipe'[s].pc \in {"item", "sleepDelete", "sleepPage"}

C6_WentOn ==
    \A i \in ItemIds : (HasRefresh(i) /\ ~RefreshParses(i)) =>
        \A s \in Slots : WentOnAfter(s, i)

\* C6: for an object whose refresh annotation does not parse, a delete request is
\* issued iff the time of the evaluation is strictly after creation + ttl, the
\* pipeline stays in its loops, and it evaluates the later objects before it ends.
C6_MalformedRefreshFallsBack == []C6_WentOn /\ [][C6_AtEvaluation]_vars

\* Object 2 has an unparseable refresh annotation: a pass deleted it once
\* creation + ttl had passed and went on to evaluate object 3.
C6_Witness ==
    /\ HasRefresh(2) /\ ~RefreshParses(2)
    /\ 2 \notin cluster
    /\ \E s \in Slots : 2 \in deletes[s] /\ 3 \in evaluated[s] /\ Finished(s)

(***************************************************************************)
(* C7                                                                      *)
(***************************************************************************)
\* C7: when the timer fired before DoReconcile returned, the Reconcile call
\* returns ErrTimedOut.
C7_TimerFirstMeansTimedOut ==
    (Returned /\ cur # 0 /\ first[cur] = "timer") => err = ErrTimedOut

(***************************************************************************)
(* C8                                                                      *)
(***************************************************************************)
\* C8: when DoReconcile returned before the timer fired, the Reconcile call
\* returns success, whatever requests failed in the pass.
C8_PipelineFirstMeansSuccess ==
    (Returned /\ cur # 0 /\ first[cur] = "pipe") => err = ErrNil

(***************************************************************************)
(* C9                                                                      *)
(***************************************************************************)
C9_State ==
    /\ \A s \in Slots : Finished(s) =>
          \A i \in cluster : EligibleKind(i) => i \in evaluated[s]
    /\ (Returned /\ err # ErrNil) =>
          \/ lastDiscovery = "failed" /\ err = ErrDiscovery
          \/ cur # 0 /\ timer[cur] = "done" /\ err = ErrTimedOut

C9_AtFailure ==
    \A s \in Slots :
        (owner'[s] = owner[s] /\ failed'[s] # failed[s]) =>
            /\ pipe'[s].pc \in {"list", "sleepDelete"}
            /\ pipe'[s].gi = pipe[s].gi
            /\ pipe'[s].ki = pipe[s].ki
            /\ UNCHANGED <<mainPc, err>>

\* C9: a failed list or delete request leaves the pipeline inside the loops of the
\* same kind and does not make Reconcile return; a pipeline that has left its loops
\* has evaluated every stored object of every eligible kind; and Reconcile returns
\* an error only after a failed discovery request or after the timer fired.
C9_ErrorsAbsorbed == []C9_State /\ [][C9_AtFailure]_vars

\* With everything watched, Reconcile returned success from a pass in which a list
\* request and a delete request failed, that met the malformed TTL of object 1 and
\* the malformed refresh annotation of object 2, and that reached the last kind.
C9_Witness ==
    /\ Returned /\ err = ErrNil /\ cur # 0
    /\ apiResourcesToWatch = <<>>
    /\ failed[cur] = {"list", "delete"}
    /\ {1, 2, 8} \subseteq evaluated[cur]

(***************************************************************************)
(* C10                                                                     *)
(***************************************************************************)
C10_AtReturn ==
    (Returned /\ lastDiscovery = "failed") =>
        /\ err = ErrDiscovery
        /\ cur = 0
        /\ \A s \in Slots : owner[s] # pass

C10_Step ==
    /\ (pass' # pass /\ lastDiscovery' = "failed") =>
          /\ mainPc' = "returned"
          /\ UNCHANGED <<cluster, timer, timeout, result, pipe, evaluated, deletes>>
    /\ (Returned /\ lastDiscovery = "failed" /\ mainPc' # mainPc) =>
          executionFailedCounter' = executionFailedCounter + 1

\* C10: a Reconcile call whose discovery request fails returns that error in the
\* same step, no goroutine and no channel belongs to that pass, no object is
\* evaluated or deleted in the step, and main adds one to executionFailedCounter.
C10_DiscoveryFailureReturnsAtOnce == []C10_AtReturn /\ [][C10_Step]_vars

\* Two passes in a row failed at discovery and main has counted both.
C10_Witness ==
    /\ mainPc = "idle"
    /\ lastDiscovery = "failed"
    /\ pass = 2
    /\ executionFailedCounter = 2
    /\ \A s \in Slots : owner[s] = 0

(***************************************************************************)
(* C11                                                                     *)
(***************************************************************************)
\* The verbs discovery advertises for a resource, as a set.
VerbSet(resource) ==
    LET p == EntryOf(resource)
        vs == Resources[p[1]].APIResources[p[2]].Verbs
    IN { vs[n] : n \in 1..Len(vs) }

\* C11: every resource a pipeline issued a list request for, and the resource of
\* every object it issued a delete request for, has both the verb list and the verb
\* delete among its verbs.
C11_OnlyKindsWithListAndDelete ==
    \A s \in Slots :
        /\ \A r \in listed[s] : {"list", "delete"} \subseteq VerbSet(r)
        /\ \A i \in deletes[s] : {"list", "delete"} \subseteq VerbSet(Items[i].resource)

(***************************************************************************)
(* C12                                                                     *)
(***************************************************************************)
\* The names in the allow-list, as a set.
WatchSet == { apiResourcesToWatch[n] : n \in 1..Len(apiResourcesToWatch) }

\* The resources of the groups DoReconcile does not skip as a whole (a group with
\* kinds and with at most one slash in its group/version) that have both the verb
\* list and the verb delete.
ResourcesWithListAndDelete ==
    LET groups == { g \in 1..Len(Resources) :
                      Cardinality({ n \in 1..Len(Resources[g].GroupVersion) :
                                      Resources[g].GroupVersion[n] = "/" }) <= 1 }
        names == UNION { { Resources[g].APIResources[k].Name :
                             k \in 1..Len(Resources[g].APIResources) } : g \in groups }
    IN { r \in names : {"list", "delete"} \subseteq VerbSet(r) }

\* C12: with a non-empty allow-list a pipeline issues list and delete requests only
\* for resources the allow-list names; with an empty allow-list a pipeline that has
\* left its loops has listed every resource that supports list and delete up to its
\* last page and evaluated every stored object of it.
C12_AllowList ==
    \A s \in Slots :
        /\ apiResourcesToWatch # <<>> =>
              /\ listed[s] \subseteq WatchSet
              /\ \A i \in deletes[s] : Items[i].resource \in WatchSet
        /\ (apiResourcesToWatch = <<>> /\ Finished(s)) =>
              /\ ResourcesWithListAndDelete \subseteq completed[s]
              /\ \A i \in cluster :
                    Items[i].resource \in ResourcesWithListAndDelete => i \in evaluated[s]

\* With the allow-list jobs, leases, widgets a pipeline has left its loops at minute
\* 3: it listed jobs and leases and deleted job 6, and left the pods alone although
\* pod 3 had expired and pods support list and delete.
C12_Witness ==
    /\ apiResourcesToWatch = <<"jobs", "leases", "widgets">>
    /\ now = 3
    /\ "pods" \in ResourcesWithListAndDelete /\ ExpiredAt(3, now) /\ 3 \in cluster
    /\ \E s \in Slots :
        /\ Finished(s)
        /\ listed[s] = {"jobs", "leases"}
        /\ 6 \in deletes[s] /\ 6 \notin cluster

(***************************************************************************)
(* C13                                                                     *)
(***************************************************************************)
\* The goroutine running DoReconcile in slot s has started and not ended.
Running(s) == pipe[s].pc \notin {"none", "done"}

\* C13: no pipeline has issued a list or delete request while the pipeline of an
\* earlier pass was still running.
C13_SinglePipeline ==
    \A s, t \in Slots :
        (owner[t] # 0 /\ owner[t] < owner[s] /\ Running(t)) =>
            (listed[s] = {} /\ deleteRequests[s] = 0)

(***************************************************************************)
(* C14                                                                     *)
(***************************************************************************)
C14_State ==
    \A s \in Slots : deleteRequests[s] = Cardinality(deletes[s])

C14_AtEvaluation ==
    \A s \in Slots :
        /\ Evaluating(s) =>
              /\ ItemAt(s) \notin evaluated[s]
              /\ deleteRequests'[s] =
                    IF ExpiredAt(ItemAt(s), now) THEN deleteRequests[s] + 1
                    ELSE deleteRequests[s]
              /\ ExpiredAt(ItemAt(s), now) =>
                    pipe'[s] = [pipe[s] EXCEPT !.pc = "sleepDelete"]
        /\ (pipe[s].pc = "sleepDelete" /\ pipe'[s] # pipe[s]) =>
              /\ pipe'[s] = IF pipe[s].ii < Len(pipe[s].items)
                            THEN [pipe[s] EXCEPT !.pc = "item", !.ii = @ + 1]
                            ELSE [pipe[s] EXCEPT !.pc = "sleepPage", !.items = <<>>,
                                                 !.ii = 0]
              /\ UNCHANGED <<cluster, deletes, deleteRequests>>

\* C14: a pipeline has issued one delete request for each object it found expired;
\* the loop body runs once per object, issues one delete request when the object is
\* expired and goes to the sleep whether the request failed or not, and the step
\* after the sleep goes on with the next item without a further request.
C14_OneDeletePerEvaluation == []C14_State /\ [][C14_AtEvaluation]_vars

\* A pipeline has left its loops after five delete requests: the one for pod 2
\* failed (the pod is still stored) and the one for the next pod, 3, succeeded; the
\* one for job 4 failed and the pipeline went on with job 5 of the same page.
C14_Witness ==
    \E s \in Slots :
        /\ Finished(s)
        /\ deletes[s] = {2, 3, 4, 6, 8}
        /\ {2, 4} \subseteq cluster /\ 3 \notin cluster
        /\ 5 \in evaluated[s]
        /\ deleteRequests[s] = 5

(***************************************************************************)
(* C15                                                                     *)
(***************************************************************************)
\* main is inside a Reconcile call whose discovery request has returned.
InSelect == mainPc \in {"select", "parked"}

C15_AtDeadline ==
    /\ (mainPc = "parked") => (cur # 0 /\ timer[cur] = "sleeping")
    /\ (Returned /\ cur # 0 /\ pipe[cur].pc # "done") => err = ErrTimedOut

\* C15: a Reconcile call that got past discovery eventually returns; main never
\* stays parked in the select of a call whose timer has fired, and a call that
\* returns while its pipeline has not finished returns ErrTimedOut.
C15_ReconcileReturns == (InSelect ~> Returned) /\ []C15_AtDeadline

\* Reconcile returned ErrTimedOut while the pipeline is still at the list request
\* of its first kind, after list requests that failed.
C15_Witness ==
    /\ Returned /\ err = ErrTimedOut /\ cur # 0
    /\ pipe[cur].pc = "list"
    /\ "list" \in failed[cur]
    /\ completed[cur] = {}

(***************************************************************************)
(* C16                                                                     *)
(***************************************************************************)
\* The pipeline of slot s is inside the pagination loop of a kind.
InKind(s) == pipe[s].pc \in {"list", "item", "sleepDelete", "sleepPage"}

\* The resource whose pagination loop the pipeline of slot s is in.
ResourceAt(s) == Resources[pipe[s].gi].APIResources[pipe[s].ki].Name

\* The token of the most recent page the server returned to slot s for resource r,
\* the empty token when it has returned none.
LastTokenFor(s, r) == IF sent[s].Resource = r THEN sent[s].Continue ELSE 0

C16_State ==
    \A s \in Slots :
        /\ pipe[s].pc = "list" =>
              /\ pipe[s].continueToken = LastTokenFor(s, ResourceAt(s))
              /\ ResourceAt(s) \notin completed[s]
        /\ InKind(s) => listed[s] \ {ResourceAt(s)} \subseteq completed[s]
        /\ ~InKind(s) => listed[s] \subseteq completed[s]
        /\ pipe[s].pc \notin {"item", "sleepDelete"} => served[s] = evaluated[s]
        /\ pipe[s].pc \in {"item", "sleepDelete"} =>
              served[s] \ evaluated[s] =
                 { pipe[s].items[n] :
                     n \in (IF pipe[s].pc = "item" THEN pipe[s].ii ELSE pipe[s].ii + 1)
                           ..Len(pipe[s].items) }

C16_Step ==
    \A s \in Slots :
        /\ Evaluating(s) => (ItemAt(s) \in served[s] /\ ItemAt(s) \notin evaluated[s])
        /\ (pipe[s].pc = "sleepPage" /\ pipe'[s] # pipe[s]) =>
              /\ pipe'[s].pc = IF sent[s].Continue = 0 THEN "sleepKind" ELSE "list"
              /\ sent[s].Resource = ResourceAt(s)
              /\ pipe'[s].continueToken = sent[s].Continue
        /\ (pipe[s].pc # "sleepPage" /\ owner'[s] = owner[s] /\ InKind(s)) => InKind(s)'

\* C16: a list request carries the token of the most recent page the server
\* returned for the kind, the empty token when there is none; after a page the
\* pipeline leaves the kind iff that page came with an empty token and asks for the
\* next page otherwise, and it leaves a kind at no other point; every item of a
\* returned page is evaluated, once, before the next request.
C16_Pagination == []C16_State /\ [][C16_Step]_vars

\* With the allow-list pods a pipeline is at the sleep after the kind: the server
\* returned pods 1 and 2 with a token, then pod 3 with the empty token, and the
\* three were evaluated.
C16_Witness ==
    \E s \in Slots :
        /\ pipe[s].pc = "sleepKind"
        /\ sent[s] = [Resource |-> "pods", Continue |-> 0]
        /\ served[s] = {1, 2, 3}
        /\ evaluated[s] = {1, 2, 3}
        /\ Len(Remaining(ItemIds, "pods", 0)) > ListLimit

(***************************************************************************)
(* C17                                                                     *)
(***************************************************************************)
\* This step is a list request of slot s that the server answers with a page.
PageReturned(s) == pipe[s].pc = "list" /\ pipe'[s].listNil = FALSE /\ pipe'[s] # pipe[s]

\* This step is a list request of slot s.
ListRequest(s) ==
    /\ pipe[s].pc = "list"
    /\ owner'[s] = owner[s]
    /\ pipe'[s] # pipe[s] \/ failed'[s] # failed[s] \/ listed'[s] # listed[s]

C17_Step ==
    \A s \in Slots :
        ListRequest(s) =>
            IF PageReturned(s)
            THEN LET page == ServerList(cluster, GVR(pipe[s].gi, pipe[s].ki),
                                        LastTokenFor(s, ResourceAt(s)))
                 IN /\ served'[s] = served[s] \cup
                                      { page.Items[n] : n \in 1..Len(page.Items) }
                    /\ \A n \in 1..Len(page.Items) : page.Items[n] \notin served[s]
                    /\ sent'[s] = [Resource |-> ResourceAt(s), Continue |-> page.Continue]
            ELSE /\ pipe'[s] = [pipe[s] EXCEPT !.listNil = TRUE]
                 /\ listed'[s] \subseteq listed[s] \cup {ResourceAt(s)}
                 /\ UNCHANGED <<sent, served, completed, evaluated, cluster>>

C17_State ==
    /\ \A s \in Slots :
          (pipe[s].pc = "list" /\ "list" \in failed[s]) =>
              /\ pipe[s].continueToken = LastTokenFor(s, ResourceAt(s))
              /\ listed[s] \ {ResourceAt(s)} \subseteq completed[s]
    /\ (Returned /\ cur # 0 /\ pipe[cur].pc = "list") => err = ErrTimedOut

\* C17: a failed list request leaves the pipeline at the list request of the same
\* kind with the same token, and nothing but a returned page takes it from there;
\* the page that is returned after failures is the one that follows the last page
\* the server returned (none of its items was served before, none is skipped); no
\* other kind is listed meanwhile, and a Reconcile call that returns while its
\* pipeline is at a list request returns ErrTimedOut.
C17_ListRetriedInPlace == []C17_State /\ [][C17_Step]_vars

\* The list request for the second page of pods failed: the pipeline is still at
\* that request with the token of the first page, and Reconcile has returned
\* ErrTimedOut.
C17_Witness ==
    /\ Returned /\ err = ErrTimedOut /\ cur # 0
    /\ pipe[cur].pc = "list"
    /\ pipe[cur].listNil
    /\ pipe[cur].continueToken = 2
    /\ sent[cur] = [Resource |-> "pods", Continue |-> 2]
    /\ "list" \in failed[cur]
    /\ evaluated[cur] = {1, 2}

(***************************************************************************)
(* C18                                                                     *)
(***************************************************************************)
\* Reconcile has returned ErrTimedOut for the pass of slot s.
Abandoned(s) ==
    /\ owner[s] # 0
    /\ timer[s] = "done"
    /\ \/ cur = s /\ Returned /\ err = ErrTimedOut
       \/ cur # s /\ first[s] = "timer"

C18_Step ==
    \A s \in Slots :
        /\ (Running(s) /\ pipe'[s] # pipe[s]) =>
              /\ UNCHANGED <<timer, timeout, owner, pass, cur, executionFailedCounter>>
              /\ pipe[s].pc # "return" => UNCHANGED <<mainPc, err, result>>
        /\ (Abandoned(s) /\ Evaluating(s) /\ ExpiredAt(ItemAt(s), now)) =>
              /\ DeleteIssued(s, ItemAt(s))
              /\ ItemAt(s) \in cluster' => "delete" \in failed'[s]
        /\ (Abandoned(s) /\ ListRequest(s)) =>
              \/ PageReturned(s) /\ sent'[s].Resource = ResourceAt(s)
              \/ "list" \in failed'[s]

\* C18: no step of the timer goroutines or of main (the return of Reconcile with
\* ErrTimedOut, the bookkeeping of main, the start of the next pass) changes the
\* position of a pipeline that has not ended; after Reconcile returned ErrTimedOut
\* for its pass the pipeline's list requests still reach the server, its loop body
\* still issues a delete request for an expired object, and the object is removed
\* unless that request fails.
C18_AbandonedPipelineRuns == [][C18_Step]_vars

\* Reconcile returned ErrTimedOut for the first pass and main started the second;
\* pod 3 was still stored at that point, and the pipeline of the first pass has
\* deleted it since.
C18_Witness ==
    /\ owner[1] = 1 /\ owner[2] = 2
    /\ Abandoned(1)
    /\ 3 \in before[2]
    /\ 3 \in deletes[1] /\ 3 \notin deletes[2]
    /\ 3 \notin cluster

(***************************************************************************)
(* C19                                                                     *)
(***************************************************************************)
\* The resources DoReconcile has to check: of a group it does not skip, with the
\* verbs list and delete, named by the allow-list when there is one.
EligibleResources ==
    { r \in ResourcesWithListAndDelete : WatchSet = {} \/ r \in WatchSet }

\* C19: when Reconcile has returned success, the goroutine running DoReconcile of
\* that call has ended, the server has returned a page with an empty token for
\* every eligible resource and for every resource the pipeline listed, and every
\* item served was evaluated.
C19_SuccessMeansComplete ==
    (Returned /\ err = ErrNil) =>
        /\ cur # 0
        /\ lastDiscovery = "ok"
        /\ pipe[cur].pc = "done"
        /\ EligibleResources \subseteq completed[cur]
        /\ listed[cur] \subseteq completed[cur]
        /\ served[cur] = evaluated[cur]

\* With everything watched Reconcile returned success: pods and jobs were listed to
\* their last page, after a list request that failed and was repeated.
C19_Witness ==
    /\ Returned /\ err = ErrNil /\ cur # 0
    /\ apiResourcesToWatch = <<>>
    /\ EligibleResources = {"pods", "jobs"}
    /\ {"pods", "jobs"} \subseteq completed[cur]
    /\ "list" \in failed[cur]
    /\ {3, 6} \subseteq evaluated[cur]

(***************************************************************************)
(* C20                                                                     *)
(***************************************************************************)
C20_State ==
    \A i \in everFailed : ExpiredAt(i, now)

C20_Step ==
    /\ everFailed' # everFailed => cluster' = cluster
    /\ \A s \in Slots :
          /\ (Evaluating(s) /\ ItemAt(s) \in everFailed) => DeleteIssued(s, ItemAt(s))
          /\ \A i \in ItemIds :
                DeleteIssued(s, i) =>
                    \/ i \in everFailed' /\ cluster' = cluster
                    \/ i \notin cluster' /\ everFailed' = everFailed

\* C20: a failed delete request leaves the stored objects as they were; an object
\* a delete request failed for is expired at every later time, every later run of
\* the loop body for it, in any pass, issues a delete request again, and a delete
\* request that does not fail removes the object.
C20_FailedDeleteRetriedNextPass == []C20_State /\ [][C20_Step]_vars

\* With everything watched, the delete request of the first pass for pod 3 failed
\* and the second pass has issued a delete request for it that removed it.
C20_Witness ==
    /\ apiResourcesToWatch = <<>>
    /\ pass = 2
    /\ 3 \in everFailed
    /\ \E s \in Slots : owner[s] = 2 /\ 3 \in deletes[s]
    /\ 3 \notin cluster

(***************************************************************************)
(* C21                                                                     *)
(***************************************************************************)
\* This step is main looking at the value Reconcile returned (lines 75-84).
MainLooksAtResult == mainPc = "returned" /\ mainPc' # "returned"

C21_State ==
    /\ executionFailedCounter \in 0..(MaximumFailedExecutionBeforePanic + 1)
    /\ mainPc = "panicked" <=> executionFailedCounter > MaximumFailedExecutionBeforePanic
    /\ mainPc = "panicked" => executionFailedCounter = MaximumFailedExecutionBeforePanic + 1

C21_Step ==
    /\ executionFailedCounter' # executionFailedCounter => MainLooksAtResult
    /\ MainLooksAtResult =>
        /\ err \in {ErrNil, ErrTimedOut, ErrDiscovery}
        /\ err = ErrNil => executionFailedCounter' = 0 /\ mainPc' = "idle"
        /\ err \in {ErrTimedOut, ErrDiscovery} =>
               /\ executionFailedCounter' = executionFailedCounter + 1
               /\ mainPc' = "panicked" <=>
                      executionFailedCounter = MaximumFailedExecutionBeforePanic
    /\ mainPc = "panicked" => UNCHANGED <<mainVars, cluster, pipe, timer, chanVars>>

EventsAbout(s, i) == { n \in 1..Len(events[s]) : events[s][n].name = Items[i].name }

IsDeletedEvent(e) == e.type = "Normal" /\ e.reason = "DeletedExpiredTTL"

IsFailedEvent(e) == e.type = "Warning" /\ e.reason = "FailedToDeleteExpiredTTL"

C22_State ==
    \A s \in Slots :
        /\ Len(events[s]) = deleteRequests[s]
        /\ \A i \in ItemIds :
               Cardinality(EventsAbout(s, i)) = IF i \in deletes[s] THEN 1 ELSE 0
        /\ \A n \in 1..Len(events[s]) : IsDeletedEvent(events[s][n]) \/ IsFailedEvent(events[s][n])

C22_Step ==
    \A s \in Slots :
        /\ (Evaluating(s) /\ DeleteIssued(s, ItemAt(s))) =>
               /\ Len(events'[s]) = Len(events[s]) + 1
               /\ SubSeq(events'[s], 1, Len(events[s])) = events[s]
               /\ LET e == events'[s][Len(events'[s])]
                  IN /\ e.name = Items[ItemAt(s)].name
                     /\ IF ItemAt(s) \in cluster /\ ItemAt(s) \notin cluster'
                        THEN IsDeletedEvent(e)
                        ELSE IsFailedEvent(e) /\ cluster' = cluster
        /\ (owner'[s] = owner[s] /\ ~(Evaluating(s) /\ DeleteIssued(s, ItemAt(s)))) =>
               events'[s] = events[s]

\* C22: every delete request of a pipeline is followed, in the same run of the loop
\* body, by exactly one event about the item: type Normal with reason
\* DeletedExpiredTTL when the request removed the item, type Warning with reason
\* FailedToDeleteExpiredTTL when it failed; no other step creates an event, so a
\* pipeline holds one event for each item it issued a delete request for and none
\* for any other item.
C22_OneEventPerDelete == []C22_State /\ [][C22_Step]_vars

\* One pipeline has created a Normal event for job f, which it deleted, and then a
\* Warning event for lease h, whose delete request failed.
C22_Witness ==
    \E s \in Slots :
        /\ Len(events[s]) = 2
        /\ events[s][1].name = "f" /\ IsDeletedEvent(events[s][1])
        /\ events[s][2].name = "h" /\ IsFailedEvent(events[s][2])
        /\ 6 \notin cluster /\ 8 \in cluster

(***************************************************************************)
(* C23                                                                     *)
(***************************************************************************)
\* Place p of the discovery snapshot comes before place q (group, then kind).
Precedes(p, q) == p[1] < q[1] \/ (p[1] = q[1] /\ p[2] < q[2])

\* This step is a delete request of slot s.
DeleteRequest(s) == owner'[s] = owner[s] /\ deleteRequests'[s] # deleteRequests[s]

\* The pipeline of slot s holds no page, or has run the loop body for every item of
\* the page it holds.
PageProcessed(s) == pipe[s].items = <<>> /\ served[s] \subseteq evaluated[s]

C23_State ==
    \A s \in Slots :
        /\ pipe[s].pc \in {"item", "sleepDelete"} =>
              /\ pipe[s].ii \in 1..Len(pipe[s].items)
              /\ \A n \in 1..Len(pipe[s].items) :
                     pipe[s].items[n] \in evaluated[s] <=>
                        (n < pipe[s].ii \/ (n = pipe[s].ii /\ pipe[s].pc = "sleepDelete"))
              /\ \A n \in 1..Len(pipe[s].items) :
                     Items[pipe[s].items[n]].resource = ResourceAt(s)
        /\ pipe[s].pc \notin {"item", "sleepDelete"} => PageProcessed(s)
        /\ InKind(s) => \A r \in listed[s] \ {ResourceAt(s)} :
                            Precedes(EntryOf(r), <<pipe[s].gi, pipe[s].ki>>)

C23_Step ==
    \A s \in Slots :
        /\ ~(ListRequest(s) /\ DeleteRequest(s))
        /\ DeleteRequest(s) =>
              /\ Evaluating(s)
              /\ deleteRequests'[s] = deleteRequests[s] + 1
              /\ deletes'[s] = deletes[s] \cup {ItemAt(s)}
              /\ pipe'[s].pc = "sleepDelete"
        /\ ListRequest(s) => PageProcessed(s)
        /\ (ListRequest(s) /\ ResourceAt(s) \notin listed[s]) =>
              /\ listed[s] \subseteq completed[s]
              /\ \A r \in listed[s] : Precedes(EntryOf(r), <<pipe[s].gi, pipe[s].ki>>)
        /\ (Evaluating(s) /\ pipe'[s].pc = "item") =>
              /\ pipe'[s].ii = pipe[s].ii + 1
              /\ pipe'[s].items = pipe[s].items
        /\ (owner'[s] = owner[s] /\ InKind(s)
              /\ pipe'[s].pc \in {"list", "item", "sleepDelete", "sleepPage"}) =>
              ~Precedes(<<pipe'[s].gi, pipe'[s].ki>>, <<pipe[s].gi, pipe[s].ki>>)

\* C23: a pipeline does one thing per step: a step is never both a list and a delete
\* request, and a delete request is one request, for the item the loop body runs
\* for.  The items of a page are evaluated in the order of the page, one after the
\* other; a list request is issued only when every item of every page returned so
\* far has been evaluated; the first list request of a kind is issued only when every
\* kind listed before has had its last page returned and processed, and the kinds
\* are taken in the order of the discovery snapshot.
C23_OneAtATimeInOrder == []C23_State /\ [][C23_Step]_vars

\* A pipeline that has deleted pod c and the jobs d and f is about to issue the first
\* list request for leases: pods and jobs are complete, every item served was evaluated.
C23_Witness ==
    \E s \in Slots :
        /\ pipe[s].pc = "list"
        /\ ResourceAt(s) = "leases"
        /\ "leases" \notin listed[s]
        /\ listed[s] = {"pods", "jobs"}
        /\ completed[s] = {"pods", "jobs"}
        /\ served[s] = {1, 2, 3, 4, 5, 6}
        /\ deletes[s] = {3, 4, 6}

(***************************************************************************)
(* C24                                                                     *)
(***************************************************************************)
\* This step is a step of the pipeline that slot s was already running.
PipeStep(s) == owner'[s] = owner[s] /\ pipe'[s] # pipe[s]

\* The pipeline of slot s is in one of its three sleeps of ThrottleDuration.
Sleeping(s) == pipe[s].pc \in {"sleepDelete", "sleepPage", "sleepKind"}

\* The place in the discovery snapshot the pipeline of slot s is at.
PlaceOf(p) == <<p.gi, p.ki>>

C24_Step ==
    \A s \in Slots :
        /\ DeleteRequest(s) => pipe'[s] = [pipe[s] EXCEPT !.pc = "sleepDelete"]
        /\ PipeStep(s) =>
              \* the loop body runs for an item at the start of a page, after an item
              \* that was not deleted, or after the sleep of line 204
              /\ pipe'[s].pc = "item" =>
                    \/ PageReturned(s) /\ pipe'[s].ii = 1
                    \/ pipe[s].pc = "item" /\ ~DeleteRequest(s)
                    \/ pipe[s].pc = "sleepDelete"
              \* every page ends in the sleep of line 210
              /\ PageReturned(s) => pipe'[s].pc \in {"item", "sleepPage"}
              /\ (pipe[s].pc \in {"item", "sleepDelete"}
                    /\ pipe'[s].pc \notin {"item", "sleepDelete"}) =>
                    pipe'[s].pc = "sleepPage" /\ pipe[s].ii = Len(pipe[s].items)
              \* the next list request of the kind follows that sleep or a failed request
              /\ (pipe'[s].pc = "list" /\ PlaceOf(pipe'[s]) = PlaceOf(pipe[s])) =>
                    pipe[s].pc = "sleepPage" \/ (ListRequest(s) /\ ~PageReturned(s))
              \* the sleep of line 213 follows the sleep after the last page
              /\ pipe'[s].pc = "sleepKind" =>
                    /\ pipe[s].pc = "sleepPage"
                    /\ ResourceAt(s) \in completed[s]
                    /\ PlaceOf(pipe'[s]) = PlaceOf(pipe[s])
              /\ pipe[s].pc = "sleepPage" =>
                    /\ pipe'[s].pc \in {"list", "sleepKind"}
                    /\ pipe'[s].pc = "sleepKind" <=> ResourceAt(s) \in completed[s]
              \* the next kind, or the return, follows the sleep of line 213
              /\ (InKind(s) \/ pipe[s].pc = "sleepKind") =>
                    (PlaceOf(pipe'[s]) # PlaceOf(pipe[s]) <=> pipe[s].pc = "sleepKind")
              /\ pipe'[s].pc = "return" => pipe[s].pc = "sleepKind"
              \* a sleep sends nothing
              /\ Sleeping(s) => UNCHANGED <<cluster, mainVars, chanVars, timer, histVars, logVars>>

\* C24: a delete request, whether it removed the item or failed, is followed by the
\* sleep of line 204, and only after it does the loop body run for the next item;
\* every page the server returned, the last page of a kind included, ends in the
\* sleep of line 210; when the last page has been processed that sleep is followed
\* by the sleep of line 213, and only after it does the pipeline enter the next kind
\* or return.  A sleep issues no request.
C24_Throttle == [][C24_Step]_vars

\* A pipeline sleeps after the failed delete request for lease h, the last item of
\* the last page; it deleted job f before.
C24_Witness ==
    \E s \in Slots :
        /\ pipe[s].pc = "sleepDelete"
        /\ ItemAt(s) = 8
        /\ 8 \in cluster
        /\ 8 \in deletes[s]
        /\ "delete" \in failed[s]
        /\ 6 \in deletes[s] /\ 6 \notin cluster

(***************************************************************************)
(* C25                                                                     *)
(***************************************************************************)
\* The next step of the pipeline of slot s is a list request.
AtListRequest(p) == p.pc = "list"

C25_Step ==
    \A s \in Slots : ListRequest(s) => ~AtListRequest(pipe'[s])

\* C25: a list request of a pipeline, whether it returns a page or an error, is not
\* followed by the next list request of that pipeline without a step in between:
\* the pipeline first evaluates the page or sleeps.
C25_SleepBetweenListRequests == [][C25_Step]_vars

(***************************************************************************)
(* C26                                                                     *)
(***************************************************************************)
\* The places of the slashes in a group/version string.
Slashes(gv) == { n \in 1..Len(gv) : gv[n] = "/" }

\* The group/version string discovery gives for a resource.
GroupVersionOf(resource) == Resources[EntryOf(resource)[1]].GroupVersion

\* The group and the version a string with at most one slash stands for.
GroupIn(gv) ==
    IF Slashes(gv) = {} THEN <<>>
    ELSE SubSeq(gv, 1, (CHOOSE n \in Slashes(gv) : TRUE) - 1)

VersionIn(gv) ==
    IF Slashes(gv) = {} THEN gv
    ELSE SubSeq(gv, (CHOOSE n \in Slashes(gv) : TRUE) + 1, Len(gv))

\* The resources of the groups that follow, in the snapshot, a group whose string
\* has more than one slash.
AfterSkippedGroup ==
    { r \in EligibleResources :
        \E g \in 1..Len(Resources) :
            /\ Cardinality(Slashes(Resources[g].GroupVersion)) > 1
            /\ g < EntryOf(r)[1] }

\* The resources of the groups whose string has more than one slash, and the
\* objects of these resources.
SkippedResources ==
    { r \in DOMAIN EntryTable : Cardinality(Slashes(GroupVersionOf(r))) > 1 }

SkippedItems == { i \in ItemIds : Items[i].resource \in SkippedResources }

C26_State ==
    /\ SkippedItems \subseteq cluster
    /\ \A s \in Slots :
        /\ listed[s] \cap SkippedResources = {}
        /\ (evaluated[s] \cup deletes[s]) \cap SkippedItems = {}
        /\ Finished(s) => AfterSkippedGroup \subseteq completed[s]

C26_Step ==
    \A s \in Slots :
        (ListRequest(s) \/ DeleteRequest(s)) =>
            LET gvr == GVR(pipe[s].gi, pipe[s].ki)
                gv == Resources[pipe[s].gi].GroupVersion
            IN /\ Cardinality(Slashes(gv)) <= 1
               /\ gvr.Group = GroupIn(gv)
               /\ gvr.Version = VersionIn(gv)
               /\ Cardinality(Slashes(gv)) = 0 => gvr.Group = <<>> /\ gvr.Version = gv
               /\ Cardinality(Slashes(gv)) = 1 =>
                      gvr.Group \o <<"/">> \o gvr.Version = gv
               /\ "/" \notin { gvr.Group[n] : n \in 1..Len(gvr.Group) }
               /\ "/" \notin { gvr.Version[n] : n \in 1..Len(gvr.Version) }

\* C26: no pipeline lists, evaluates or deletes anything of a group whose
\* group/version string has more than one slash, so every object of such a group
\* stays stored; a pipeline that has left its loops has listed the eligible kinds
\* of the groups after it up to their last page.  Every list and delete request
\* carries the group and version of its kind's string: the empty group and the
\* whole string when it has no slash, the parts before and after the slash when it
\* has one.
C26_GroupVersion == []C26_State /\ [][C26_Step]_vars

\* With widgets in the allow-list a pipeline has left its loops: the group a/b/c
\* was skipped, widget g (TTL 0s) is still stored, and jobs and leases of batch/v1,
\* the group after it, were listed; it deleted job f under group batch, version v1.
C26_Witness ==
    \E s \in Slots :
        /\ Finished(s)
        /\ apiResourcesToWatch = <<"jobs", "leases", "widgets">>
        /\ listed[s] = {"jobs", "leases"}
        /\ 7 \in cluster
        /\ 6 \in deletes[s] /\ 6 \notin cluster
        /\ GVR(4, 1).Group = <<"b", "a", "t", "c", "h">>
        /\ GVR(4, 1).Version = <<"v", "1">>
        /\ GVR(1, 2).Group = <<>>
        /\ GVR(1, 2).Version = <<"v", "1">>

(***************************************************************************)
(* C27                                                                     *)
(***************************************************************************)
\* This step is the first list request of slot s for the kind it is at.
FirstListRequest(s) == ListRequest(s) /\ ResourceAt(s) \notin listed[s]

C27_State ==
    \A s \in Slots :
        (pipe[s].pc = "list" /\ ResourceAt(s) \notin listed[s]) =>
            /\ pipe[s].continueToken = 0
            /\ pipe[s].listNil
            /\ pipe[s].items = <<>>
            /\ sent[s].Continue = 0

C27_Step ==
    \A s \in Slots :
        /\ ListRequest(s) => listed'[s] = listed[s] \cup {ResourceAt(s)}
        /\ (FirstListRequest(s) /\ PageReturned(s)) =>
              LET mine == { i \in cluster : Items[i].resource = ResourceAt(s) }
              IN /\ sent'[s].Resource = ResourceAt(s)
                 /\ mine # {} =>
                       /\ pipe'[s].pc = "item"
                       /\ \A i \in mine : pipe'[s].items[1] <= i
                 /\ mine = {} => pipe'[s].pc = "sleepPage"
        /\ DeleteRequest(s) =>
              LET gvr == GVR(pipe[s].gi, pipe[s].ki)
                  item == Items[ItemAt(s)]
              IN /\ gvr.Resource = item.resource
                 /\ gvr.Resource = sent[s].Resource
                 /\ ItemAt(s) \in served[s]
                 /\ EntryOf(item.resource) = <<pipe[s].gi, pipe[s].ki>>
                 /\ ServerKnows(gvr)
                 /\ GroupVersionOf(item.resource) =
                        (IF gvr.Group = <<>> THEN gvr.Version
                         ELSE gvr.Group \o <<"/">> \o gvr.Version)

\* C27: the first list request of a pipeline for a kind carries the empty
\* continuation token and the name of that kind, so the page it returns starts at
\* the first stored object of the kind, whatever the listing of the kind before
\* returned.  A delete request carries the resource of the kind whose page, the
\* last one the server returned, holds the item, with the group and version of that
\* kind's discovery entry.
C27_FreshPerKind == []C27_State /\ [][C27_Step]_vars

\* After two pages of jobs, a failed list request among them, the pipeline is about
\* to issue its first list request for leases with the empty token; job d was
\* deleted from the first page of jobs.
C27_Witness ==
    \E s \in Slots :
        /\ pipe[s].pc = "list"
        /\ ResourceAt(s) = "leases"
        /\ "leases" \notin listed[s]
        /\ pipe[s].continueToken = 0
        /\ sent[s].Resource = "jobs"
        /\ {4, 5, 6} \subseteq served[s]
        /\ "list" \in failed[s]
        /\ 4 \in deletes[s] /\ 4 \notin cluster

(***************************************************************************)
(* C28                                                                     *)
(***************************************************************************)
C28_State ==
    /\ cluster \subseteq ItemIds
    /\ \A i \in cluster : objects[i] = Items[i]

C28_Step ==
    /\ objects' = objects
    /\ cluster' \subseteq cluster
    /\ cluster' # cluster =>
          \E s \in Slots :
              /\ DeleteRequest(s)
              /\ cluster' = cluster \ {ItemAt(s)}
    /\ \A s \in Slots : PipeStep(s) =>
          \/ ListRequest(s)
          \/ Evaluating(s)
          \/ Sleeping(s)
          \/ pipe[s].pc = "return"
    /\ \A s \in Slots : (PipeStep(s) /\ ~DeleteRequest(s)) => cluster' = cluster

\* C28: no step changes what the server stores of an object, and no step adds an
\* object; the stored set changes only in a delete request of a pipeline, which
\* removes the one item the request names.  A pipeline step is a list request, the
\* loop body for one item, a sleep or the return, so every object still stored is
\* as it was when the process started.
C28_InstancesUntouched == []C28_State /\ [][C28_Step]_vars

\* Every pass of the budget has been made, both returned success; pod c and the jobs
\* d and f were deleted, the five other objects are stored as they were at the start.
C28_Witness ==
    /\ pass = MaxPasses
    /\ Returned /\ err = ErrNil
    /\ executionFailedCounter = 0
    /\ \A s \in Slots : pipe[s].pc \in {"none", "done"}
    /\ cluster = ItemIds \ {3, 4, 6}
    /\ \A i \in cluster : objects[i] = Items[i]
    /\ 1 \in evaluated[cur] /\ 5 \in evaluated[cur]

(***************************************************************************)
(* C29                                                                     *)
(***************************************************************************)
\* now - (anchor + ttl) of the item evaluated, for the instant now that line 190
\* read, in quarters of a second.
Overshoot == reading - (AnchorOf(evalItem) + TTLOf(evalItem)) * Minute

\* This step computes the overshoot that is logged.
Reports == ttlExpired = "true" /\ ttlExpired' = "reported"

C29_ExactStep == Reports => durationSinceExpired' = Overshoot

\* C29 as claimed: the overshoot reported for an expired item is now - (anchor + ttl)
\* at the instant now the expiry decision was taken at.
C29_OvershootIsExact == [][C29_ExactStep]_vars

C29_State ==
    /\ ttlExpired \in {"true", "reported"} => Overshoot > 0
    /\ ttlExpired = "false" => Overshoot <= 0
    /\ durationSinceExpired # 0 => ttlExpired = "reported"

C29_Step ==
    Reports =>
        /\ durationSinceExpired' % Second = 0
        /\ durationSinceExpired' >= 0
        /\ \E elapsed \in 0..MaxElapsed :
               /\ 2 * (durationSinceExpired' - (Overshoot + elapsed)) <= Second
               /\ 2 * ((Overshoot + elapsed) - durationSinceExpired') < Second
        /\ 2 * (Overshoot - durationSinceExpired') < Second
        /\ 2 * (durationSinceExpired' - Overshoot) <= 2 * MaxElapsed + Second

\* C29 as the code has it: an item is expired exactly when now - (anchor + ttl) is
\* positive at the reading now of line 190, and the overshoot reported for it is a
\* whole number of seconds, the nearest one (halves upwards) to
\* clock - (anchor + ttl) at a second reading of the clock, taken after now.  It is
\* less than now - (anchor + ttl) by under half a second at most, and more by at
\* most the time between the two readings plus half a second.
C29_OvershootRounded == []C29_State /\ [][C29_Step]_vars

\* Pod c expired at minute 2; the clock read a quarter of a second past minute 3
\* at line 190 and the overshoot reported is one minute: less than the overshoot.
C29_Witness ==
    /\ evalItem = 3
    /\ ttlExpired = "reported"
    /\ reading = 3 * Minute + 1
    /\ Overshoot = Minute + 1
    /\ durationSinceExpired = Minute

(***************************************************************************)
(* C30                                                                     *)
(***************************************************************************)
\* Reconcile is parked in its select on the channels of slot s.
ParkedOn(s) == mainPc = "parked" /\ cur = s

\* The goroutine of slot s that has not finished first has now ended too, while
\* the Reconcile call it belonged to had already returned.
LoserEnded(s) ==
    /\ first[s] # "none"
    /\ timer[s] = "done"
    /\ pipe[s].pc = "done"
    /\ ~(cur = s /\ mainPc \in {"select", "parked"})

C30_State ==
    \A s \in Slots :
        /\ timeout[s] \in 0..ChanCapacity
        /\ result[s] \in 0..ChanCapacity
        \* a goroutine that is about to send finds room in its channel
        /\ (Alive /\ timer[s] = "sleeping") => timeout[s] < ChanCapacity
        /\ (Alive /\ pipe[s].pc = "return") => result[s] < ChanCapacity
        \* so its send goes through whether or not the select is waiting for it
        /\ (Alive /\ timer[s] = "sleeping") => CanSend(timeout[s], ParkedOn(s))
        /\ (Alive /\ pipe[s].pc = "return") => CanSend(result[s], ParkedOn(s))
        \* a buffered value was sent by the goroutine of the channel, which has ended
        /\ timeout[s] > 0 => timer[s] = "done"
        /\ result[s] > 0 => pipe[s].pc = "done"

C30_Step ==
    \A s \in Slots :
        \* one send per channel, the last step of its goroutine
        /\ (owner'[s] = owner[s] /\ timeout'[s] > timeout[s]) =>
              /\ timer[s] = "sleeping" /\ timer'[s] = "done"
              /\ ~ParkedOn(s)
        /\ (owner'[s] = owner[s] /\ result'[s] > result[s]) =>
              /\ pipe[s].pc = "return" /\ pipe'[s].pc = "done"
              /\ ~ParkedOn(s)
        /\ (timer[s] = "done" /\ owner'[s] = owner[s]) =>
              timer'[s] = "done" /\ timeout'[s] <= timeout[s]
        /\ (pipe[s].pc = "done" /\ owner'[s] = owner[s]) =>
              pipe'[s].pc = "done" /\ result'[s] <= result[s]
        \* the end of a goroutine moves main only through the select it is parked in
        /\ (owner'[s] = owner[s] /\ timer[s] = "sleeping" /\ timer'[s] = "done") =>
              /\ UNCHANGED <<pipe, result, cur, executionFailedCounter, pass, cluster>>
              /\ IF ParkedOn(s) THEN mainPc' = "returned" /\ err' = ErrTimedOut
                 ELSE UNCHANGED <<mainPc, err>> /\ timeout'[s] = timeout[s] + 1
        /\ (owner'[s] = owner[s] /\ pipe[s].pc = "return" /\ pipe'[s].pc = "done") =>
              /\ UNCHANGED <<timer, timeout, cur, executionFailedCounter, pass, cluster>>
              /\ IF ParkedOn(s) THEN mainPc' = "returned" /\ err' = ErrNil
                 ELSE UNCHANGED <<mainPc, err>> /\ result'[s] = result[s] + 1
        \* main takes values only from the channels of its own call
        /\ (owner'[s] = owner[s] /\ (timeout'[s] < timeout[s] \/ result'[s] < result[s])) =>
              /\ cur = s /\ mainPc = "select" /\ mainPc' = "returned"
              /\ UNCHANGED <<timer, pipe>>

\* C30: neither channel ever holds more than its capacity of one value, and a
\* goroutine that is about to send, the timer at the end of its sleep or the
\* pipeline when DoReconcile has returned, always finds its channel empty: its send
\* goes through and the goroutine ends, whether Reconcile is parked in the select,
\* has not reached it, or has long returned.  Each channel gets one send, the last
\* step of its goroutine.  The end of a goroutine changes nothing of main or of the
\* other goroutine except through the select main is parked in, and main takes
\* values only from the channels of the call it is in.
C30_SendsNeverBlock == []C30_State /\ [][C30_Step]_vars

\* The timer won the race of a pass and Reconcile returned; the pipeline of that
\* pass went on, returned and left its value in result, then the goroutine ended.
C30_Witness ==
    \E s \in Slots :
        /\ LoserEnded(s)
        /\ first[s] = "timer"
        /\ result[s] = ChanCapacity
        /\ timeout[s] = 0
        /\ cur # s
        /\ deletes[s] # {}

====
